---- MODULE Spec2Model ----
(***************************************************************************)
(* Model of the coco-backend rollup engine: session-summary ingest,        *)
(* the 7-day dashboard rollup recompute and the dashboard read path,       *)
(* running as request-scoped transactions against one relational store;    *)
(* of the device heartbeats (recording, listing, hourly compaction and     *)
(* retention cleanup), of the device command queue (enqueue, poll, status  *)
(* report) and of the audio uploads to the object store.                   *)
(*                                                                         *)
(* Time is in whole seconds since an epoch midnight (UTC).  Sentiment      *)
(* scores are fixed-point: stored scores and daily averages are in         *)
(* hundredths (Decimal with 2 fractional digits), request scores in        *)
(* thousandths (the float of the request before it is quantized).          *)
(***************************************************************************)
EXTENDS Integers, Sequences, FiniteSets, Bags, TLC

\* ---------------------------------------------------------------- constants

\* settings.rollup_window_days
WINDOW_DAYS == 7

\* seconds in one UTC calendar day (datetime.date / timedelta(days=1))
SecondsPerDay == 86400

\* thresholds of _determine_current_tone, in hundredths
TonePositiveMin == 61
ToneNeutralMin == 40

\* the value of an absent (None) timestamp or daily sentiment
None == -1

\* ------------------------------------------------------------------- bounds

\* request slots that may run concurrently
MaxSlots == 2

\* how many times the clock advances
MaxTicks == 2

\* how many commands are queued in all
MaxCommands == 3

\* ------------------------------------------------------------------- inputs

\* UTC day of the first request; the clock starts at noon of that day
Day0 == 10

ClockStep == SecondsPerDay \div 2

NowInit == Day0 * SecondsPerDay + ClockStep

Slots == 1 .. MaxSlots

UserIds == {"u1", "u2"}

SessionIds == {"s1", "s2", "s3"}

\* a request timestamp: wall-clock seconds and the UTC offset it carries
At(day, sec, off) == [local |-> day * SecondsPerDay + sec, utcoffset |-> off]

\* ------------------------------------------------------------ pure helpers

\* (variant) the calendar day of a clock twelve hours ahead of UTC
DateOf_HalfDayAhead(t) == (t + SecondsPerDay \div 2) \div SecondsPerDay

\* datetime.date() of a UTC timestamp, as a day number
DateOf(t) == t \div SecondsPerDay

\* Decimal(a) / Decimal(b) quantized to an integer with ROUND_HALF_UP (a >= 0, b > 0)
QuantizeHalfUp(a, b) == (2 * a + b) \div (2 * b)

\* SessionSummaryIngestRequest.ensure_timezone_aware: value.astimezone(timezone.utc)
ensure_timezone_aware(value) == value.local - value.utcoffset

\* _quantize_score: thousandths of the request to stored hundredths
quantize_score(value) == QuantizeHalfUp(value, 10)

\* (variant) minutes truncated instead of rounded half up
round_minutes_Truncated(seconds) == seconds \div 60

\* _round_minutes_from_seconds
round_minutes_from_seconds(seconds) == QuantizeHalfUp(seconds, 60)

RECURSIVE SumSeq(_)
SumSeq(s) == IF s = <<>> THEN 0 ELSE Head(s) + SumSeq(Tail(s))

\* _average_sentiment: mean of the bucket's scores, 2 decimals, half up
average_sentiment(bucket) ==
    QuantizeHalfUp(SumSeq([i \in 1 .. Len(bucket) |-> bucket[i].sentiment_score]),
                   Len(bucket))

\* (variant) the mean taken over all days of the window
average_duration_AllDays(durations) ==
    IF durations = <<>> THEN 0 ELSE QuantizeHalfUp(SumSeq(durations), Len(durations))

\* _average_nonzero_duration
average_nonzero_duration(durations) ==
    LET IsPositive(value) == value > 0
        non_zero == SelectSeq(durations, IsPositive)
    IN  IF non_zero = <<>> THEN 0
        ELSE QuantizeHalfUp(SumSeq(non_zero), Len(non_zero))

\* (variant) the thresholds compared with > instead of >=
RECURSIVE determine_current_tone_Strict(_)
determine_current_tone_Strict(daily_sentiment) ==
    IF daily_sentiment = <<>> THEN "neutral"
    ELSE LET sentiment == daily_sentiment[Len(daily_sentiment)]
         IN  IF sentiment = None
             THEN determine_current_tone_Strict(
                      SubSeq(daily_sentiment, 1, Len(daily_sentiment) - 1))
             ELSE IF sentiment > TonePositiveMin THEN "positive"
             ELSE IF sentiment > ToneNeutralMin THEN "neutral"
             ELSE "negative"

\* (variant) the first non-absent value scanning from the start
RECURSIVE determine_current_tone_Oldest(_)
determine_current_tone_Oldest(daily_sentiment) ==
    IF daily_sentiment = <<>> THEN "neutral"
    ELSE LET sentiment == Head(daily_sentiment)
         IN  IF sentiment = None
             THEN determine_current_tone_Oldest(Tail(daily_sentiment))
             ELSE IF sentiment >= TonePositiveMin THEN "positive"
             ELSE IF sentiment >= ToneNeutralMin THEN "neutral"
             ELSE "negative"

\* _determine_current_tone: the first non-absent value scanning from the end
RECURSIVE determine_current_tone(_)
determine_current_tone(daily_sentiment) ==
    IF daily_sentiment = <<>> THEN "neutral"
    ELSE LET sentiment == daily_sentiment[Len(daily_sentiment)]
         IN  IF sentiment = None
             THEN determine_current_tone(SubSeq(daily_sentiment, 1, Len(daily_sentiment) - 1))
             ELSE IF sentiment >= TonePositiveMin THEN "positive"
             ELSE IF sentiment >= ToneNeutralMin THEN "neutral"
             ELSE "negative"

\* (variant) every true entry counted, wherever it stands
calculate_streak_AllTrue(daily_activity) ==
    Cardinality({k \in DOMAIN daily_activity : daily_activity[k]})

\* _calculate_streak_days: consecutive true entries counted from the end
RECURSIVE calculate_streak_days(_)
calculate_streak_days(daily_activity) ==
    IF daily_activity = <<>> THEN 0
    ELSE IF daily_activity[Len(daily_activity)]
         THEN 1 + calculate_streak_days(SubSeq(daily_activity, 1, Len(daily_activity) - 1))
         ELSE 0

\* ---------------------------------------------------------------- recompute

\* rows of a bag as a sequence ordered by started_at ascending (ORDER BY)
RECURSIVE OrderByStartedAt(_)
OrderByStartedAt(rows) ==
    IF rows = EmptyBag THEN <<>>
    ELSE LET first == CHOOSE r \in BagToSet(rows) :
                          \A q \in BagToSet(rows) : r.started_at <= q.started_at
         IN  <<first>> \o OrderByStartedAt(rows (-) SetToBag({first}))

\* (variant) a window of WINDOW_DAYS + 1 days
StartDay_OffByOne(at) == DateOf(at) - WINDOW_DAYS

\* start_day of the window computed at `at`
StartDay(at) == DateOf(at) - (WINDOW_DAYS - 1)

\* window_start: start_day 00:00:00 UTC
WindowStart(at) == StartDay(at) * SecondsPerDay

\* the SELECT of recompute: the user's rows with started_at >= window_start
SelectWindowSessions(visible, user_id, at) ==
    LET InWindow(r) == r.user_id = user_id /\ r.started_at >= WindowStart(at)
    IN  OrderByStartedAt([r \in {q \in BagToSet(visible) : InWindow(q)} |-> visible[r]])

\* day_buckets[day]
DayBucket(rows, day) ==
    LET OnDay(r) == DateOf(r.started_at) = day
    IN  SelectSeq(rows, OnDay)

\* (variant) the last day of the window is left out
OrderedDays_Short(at) == [offset \in 1 .. WINDOW_DAYS - 1 |-> StartDay(at) + (offset - 1)]

\* ordered_days
OrderedDays(at) == [offset \in 1 .. WINDOW_DAYS |-> StartDay(at) + (offset - 1)]

\* (variant) the start of the session taken for its end
SessionEnd_Start(r) == r.started_at

\* started_at + timedelta(seconds=duration_seconds)
SessionEnd(r) == r.started_at + r.duration_seconds

\* the latest end among a non-empty bucket
BucketLast(bucket) ==
    LET ends == {SessionEnd(bucket[i]) : i \in 1 .. Len(bucket)}
    IN  CHOOSE e \in ends : \A f \in ends : f <= e

\* last_session_at after the loop over the first k ordered days
RECURSIVE LastSessionAt(_, _, _)
LastSessionAt(rows, days, k) ==
    IF k = 0 THEN None
    ELSE LET prev == LastSessionAt(rows, days, k - 1)
             bucket == DayBucket(rows, days[k])
         IN  IF bucket = <<>> THEN prev
             ELSE IF prev = None \/ BucketLast(bucket) > prev
                  THEN BucketLast(bucket) ELSE prev

\* recompute_dashboard_rollup: the row it writes, from the rows the
\* transaction can see at time `at`
recompute_dashboard_rollup(visible, user_id, at) ==
    LET rows == SelectWindowSessions(visible, user_id, at)
        ordered_days == OrderedDays(at)
        Bucket(k) == DayBucket(rows, ordered_days[k])
        daily_activity == [k \in DOMAIN ordered_days |-> Bucket(k) # <<>>]
        daily_durations ==
            [k \in DOMAIN ordered_days |->
                IF Bucket(k) # <<>>
                THEN round_minutes_from_seconds(
                         SumSeq([i \in 1 .. Len(Bucket(k)) |-> Bucket(k)[i].duration_seconds]))
                ELSE 0]
        daily_sentiment ==
            [k \in DOMAIN ordered_days |->
                IF Bucket(k) # <<>> THEN average_sentiment(Bucket(k)) ELSE None]
    IN  [ user_id |-> user_id,
          last_session_at |-> LastSessionAt(rows, ordered_days, Len(ordered_days)),
          daily_activity |-> daily_activity,
          daily_durations |-> daily_durations,
          daily_sentiment |-> daily_sentiment,
          avg_duration_minutes |-> average_nonzero_duration(daily_durations),
          current_tone |-> determine_current_tone(daily_sentiment),
          updated_at |-> at ]

\* -------------------------------------------------------------------- state

VARIABLES
    now,        \* the server clock, datetime.now(timezone.utc)
    users,      \* committed rows of table users: a bag of external ids
    sessions,   \* committed rows of table sessions: a bag of rows
    rollups,    \* committed rows of dashboard_rollups, by primary key user_id
    pc,         \* per request slot: where its handler stands
    req,        \* per request slot: the validated request
    tx,         \* per request slot: the writes of its open transaction
    resp,       \* per request slot: the response, once it is done
    latest,     \* committed rows of device_latest_heartbeat, by primary key device_id
    events,     \* committed rows of device_heartbeat_events
    summaries,  \* committed rows of device_heartbeat_summaries, by <<device_id, hour_bucket>>
    commands,   \* committed rows of device_commands, by primary key id
    cmdtx,      \* per request slot: its snapshot, row lock and loaded row of device_commands
    recordings, \* committed rows of audio_recordings
    blobs,      \* the keys stored in the object store
    passtx,     \* per request slot: the old events its compaction pass selected and
                \* the summaries it loaded
    folded      \* history: by <<device_id, hour_bucket>>, the raw events that committed
                \* passes have folded into the summary (no statement reads it)

vars == <<now, users, sessions, rollups, pc, req, tx, resp, latest, events, summaries, commands, cmdtx, recordings, blobs, passtx, folded>>

\* the three heartbeat tables, the slots' hold on them and their history
heartbeat_store == <<latest, events, summaries, passtx, folded>>

\* the command table and the slots' hold on it
command_store == <<commands, cmdtx>>

\* the audio table and the object store
audio_store == <<recordings, blobs>>

\* a slot that runs no compaction pass
NoPassTx == [old |-> {}, loaded |-> << >>]

\* a slot that holds nothing of device_commands: the ids its statement
\* sees, the ids it has locked, and the rows it has loaded
NoCmdTx == [snapshot |-> {}, locked |-> {}, loaded |-> {}]

NoReq == [kind |-> "none"]

NoResp == [status |-> "none"]

\* an open transaction with nothing written: inserted users, inserted
\* sessions and the pending ORM change of the rollup (flushed at commit)
EmptyTx == [users |-> {}, sessions |-> {}, rollup |-> {}]

Init ==
    /\ now = NowInit
    /\ users = EmptyBag
    /\ sessions = EmptyBag
    /\ rollups = << >>
    /\ pc = [t \in Slots |-> "idle"]
    /\ req = [t \in Slots |-> NoReq]
    /\ tx = [t \in Slots |-> EmptyTx]
    /\ resp = [t \in Slots |-> NoResp]
    /\ commands = << >>
    /\ cmdtx = [t \in Slots |-> NoCmdTx]
    /\ recordings = {}
    /\ blobs = {}
    /\ passtx = [t \in Slots |-> NoPassTx]
    /\ folded = << >>
    /\ latest = << >>
    /\ events = {}
    /\ summaries = << >>

\* the clock advances
Tick ==
    /\ now + ClockStep <= NowInit + MaxTicks * ClockStep
    /\ now' = now + ClockStep
    /\ UNCHANGED <<users, sessions, rollups, pc, req, tx, resp>>
    /\ UNCHANGED heartbeat_store
    /\ UNCHANGED <<command_store, audio_store>>

\* -------------------------------------------------------------- the store

\* (variant) the session insert never waits for a concurrent insert of its key
SessionKeyHeld_NoWait(t, session_id) == FALSE

\* (variant) a plain INSERT INTO sessions, with no conflict clause
InsertSession_Plain(t, row) == {row}

\* (variant) the user insert never waits for a concurrent insert of its key
UserKeyHeld_NoWait(t, external_id) == FALSE

\* another open transaction holds an uncommitted insert of this unique key;
\* an INSERT .. ON CONFLICT of the same key waits for it to end
UserKeyHeld(t, external_id) == \E o \in Slots \ {t} : external_id \in tx[o].users

SessionKeyHeld(t, session_id) ==
    \E o \in Slots \ {t} : \E r \in tx[o].sessions : r.session_id = session_id

\* the rows a statement of transaction t sees: committed rows and its own
VisibleUsers(t) == users (+) SetToBag(tx[t].users)

VisibleSessions(t) == sessions (+) SetToBag(tx[t].sessions)

\* rows of table sessions with this session_id
RowsWithSessionId(rows, session_id) ==
    {r \in BagToSet(rows) : r.session_id = session_id}

\* (variant) a plain INSERT INTO users, with no conflict clause
InsertUser_Plain(t, external_id) == {external_id}

\* INSERT INTO users .. ON CONFLICT (external_id) DO NOTHING: the rows inserted
InsertUserOnConflictDoNothing(t, external_id) ==
    IF CopiesIn(external_id, VisibleUsers(t)) > 0 THEN {} ELSE {external_id}

\* INSERT INTO sessions .. ON CONFLICT (session_id) DO NOTHING: the rows inserted
InsertSessionOnConflictDoNothing(t, row) ==
    IF RowsWithSessionId(VisibleSessions(t), row.session_id) # {} THEN {} ELSE {row}

\* the columns the ORM's UPDATE sets: those whose value differs from the loaded row
RollupColumns ==
    {"last_session_at", "daily_activity", "daily_durations", "daily_sentiment",
     "avg_duration_minutes", "current_tone", "updated_at"}

\* the stored row after the flush of a pending rollup change
FlushRollup(stored, change) ==
    IF change.mode = "insert" THEN change.new
    ELSE [c \in DOMAIN stored |->
            IF c \in RollupColumns /\ change.new[c] # change.loaded[c]
            THEN change.new[c] ELSE stored[c]]

\* ----------------------------------------------------------------- ingest

\* POST /internal/ingest/session_summary: the request is validated
BeginIngest(t, payloads) ==
    /\ pc[t] = "idle"
    /\ \E p \in payloads :
          req' = [req EXCEPT ![t] =
                    [ kind |-> "ingest",
                      session_id |-> p.session_id,
                      user_external_id |-> p.user_external_id,
                      started_at |-> ensure_timezone_aware(p.started_at),
                      duration_seconds |-> p.duration_seconds,
                      sentiment_score |-> p.sentiment_score ]]
    /\ pc' = [pc EXCEPT ![t] = "ingest_user"]
    /\ tx' = [tx EXCEPT ![t] = EmptyTx]
    /\ UNCHANGED <<now, users, sessions, rollups, resp>>
    /\ UNCHANGED heartbeat_store
    /\ UNCHANGED <<command_store, audio_store>>

\* (variant) _get_or_create_user commits its insert at once
IngestUser_Committing(t) ==
    /\ pc[t] = "ingest_user"
    /\ ~UserKeyHeld(t, req[t].user_external_id)
    /\ users' = users (+) SetToBag(InsertUserOnConflictDoNothing(t, req[t].user_external_id))
    /\ pc' = [pc EXCEPT ![t] = "ingest_session"]
    /\ UNCHANGED <<now, sessions, rollups, req, tx, resp>>
    /\ UNCHANGED heartbeat_store
    /\ UNCHANGED <<command_store, audio_store>>

\* _get_or_create_user
IngestUser(t) ==
    /\ pc[t] = "ingest_user"
    /\ ~UserKeyHeld(t, req[t].user_external_id)
    /\ tx' = [tx EXCEPT ![t].users =
                 @ \cup InsertUserOnConflictDoNothing(t, req[t].user_external_id)]
    /\ pc' = [pc EXCEPT ![t] = "ingest_session"]
    /\ UNCHANGED <<now, users, sessions, rollups, req, resp>>
    /\ UNCHANGED heartbeat_store
    /\ UNCHANGED <<command_store, audio_store>>

\* (variant) every inserted session is credited to the first user
SessionRow_FirstUser(t) ==
    [ session_id |-> req[t].session_id,
      user_id |-> "u1",
      started_at |-> req[t].started_at,
      duration_seconds |-> req[t].duration_seconds,
      sentiment_score |-> quantize_score(req[t].sentiment_score) ]

\* the row ingest_session_summary inserts for the request of slot t
SessionRow(t) ==
    [ session_id |-> req[t].session_id,
      user_id |-> req[t].user_external_id,
      started_at |-> req[t].started_at,
      duration_seconds |-> req[t].duration_seconds,
      sentiment_score |-> quantize_score(req[t].sentiment_score) ]

\* ingest_session_summary: the conflict-tolerant insert and its rowcount
IngestSession(t) ==
    /\ pc[t] = "ingest_session"
    /\ ~SessionKeyHeld(t, req[t].session_id)
    /\ LET inserted == InsertSessionOnConflictDoNothing(t, SessionRow(t))
       IN  /\ tx' = [tx EXCEPT ![t].sessions = @ \cup inserted]
           /\ pc' = [pc EXCEPT ![t] = IF inserted = {} THEN "commit_duplicate"
                                      ELSE "recompute"]
    /\ UNCHANGED <<now, users, sessions, rollups, req, resp>>
    /\ UNCHANGED heartbeat_store
    /\ UNCHANGED <<command_store, audio_store>>

\* recompute_dashboard_rollup, up to the pending (unflushed) rollup change
IngestRecompute(t) ==
    /\ pc[t] = "recompute"
    /\ LET user_id == req[t].user_external_id
           new == recompute_dashboard_rollup(VisibleSessions(t), user_id, now)
           change == IF user_id \in DOMAIN rollups
                     THEN [mode |-> "update", loaded |-> rollups[user_id], new |-> new]
                     ELSE [mode |-> "insert", loaded |-> new, new |-> new]
       IN  tx' = [tx EXCEPT ![t].rollup = {change}]
    /\ pc' = [pc EXCEPT ![t] = "commit"]
    /\ UNCHANGED <<now, users, sessions, rollups, req, resp>>
    /\ UNCHANGED heartbeat_store
    /\ UNCHANGED <<command_store, audio_store>>

\* the committed store after transaction t commits
CommitUsers(t) == users (+) SetToBag(tx[t].users)

CommitSessions(t) == sessions (+) SetToBag(tx[t].sessions)

CommitRollups(t) ==
    LET user_id == req[t].user_external_id
    IN  IF tx[t].rollup = {} THEN rollups
        ELSE LET change == CHOOSE c \in tx[t].rollup : TRUE
             IN  [u \in DOMAIN rollups \cup {user_id} |->
                    IF u = user_id
                    THEN FlushRollup(IF u \in DOMAIN rollups THEN rollups[u] ELSE change.new,
                                     change)
                    ELSE rollups[u]]

\* the flush at commit hits the primary key of dashboard_rollups
RollupKeyViolation(t) ==
    \E c \in tx[t].rollup : c.mode = "insert" /\ req[t].user_external_id \in DOMAIN rollups

\* the request's transaction is closed without commit after an error
Rollback(t) ==
    /\ tx' = [tx EXCEPT ![t] = EmptyTx]
    /\ UNCHANGED <<users, sessions, rollups>>

\* db.commit() of the endpoint after a non-duplicate ingest, and its response
IngestCommit(t) ==
    /\ pc[t] = "commit"
    /\ IF RollupKeyViolation(t)
       THEN /\ Rollback(t)
            /\ resp' = [resp EXCEPT ![t] = [status |-> "error"]]
       ELSE /\ users' = CommitUsers(t)
            /\ sessions' = CommitSessions(t)
            /\ rollups' = CommitRollups(t)
            /\ tx' = [tx EXCEPT ![t] = EmptyTx]
            /\ resp' = [resp EXCEPT ![t] = [status |-> "ok"]]
    /\ pc' = [pc EXCEPT ![t] = "done"]
    /\ UNCHANGED <<now, req>>
    /\ UNCHANGED heartbeat_store
    /\ UNCHANGED <<command_store, audio_store>>

\* db.commit() of the endpoint after a duplicate, and its response
IngestCommitDuplicate(t) ==
    /\ pc[t] = "commit_duplicate"
    /\ users' = CommitUsers(t)
    /\ sessions' = CommitSessions(t)
    /\ rollups' = CommitRollups(t)
    /\ tx' = [tx EXCEPT ![t] = EmptyTx]
    /\ resp' = [resp EXCEPT ![t] = [status |-> "duplicate"]]
    /\ pc' = [pc EXCEPT ![t] = "done"]
    /\ UNCHANGED <<now, req>>
    /\ UNCHANGED heartbeat_store
    /\ UNCHANGED <<command_store, audio_store>>

\* a statement of the ingest, or its commit, fails in the store: nothing in
\* ingest_session_summary or in the endpoint catches the exception, so it
\* leaves the handler and the request's transaction is closed uncommitted
StorageFailure(t) ==
    /\ pc[t] \in {"ingest_user", "ingest_session", "recompute", "commit", "commit_duplicate"}
    /\ Rollback(t)
    /\ resp' = [resp EXCEPT ![t] = [status |-> "error", step |-> pc[t]]]
    /\ pc' = [pc EXCEPT ![t] = "done"]
    /\ UNCHANGED <<now, req>>
    /\ UNCHANGED heartbeat_store
    /\ UNCHANGED <<command_store, audio_store>>

\* ------------------------------------------------------------ dashboard read

\* _to_optional_float: round(float(value), 2) of a 2-decimal value
to_optional_float(value) == IF value = None THEN None ELSE QuantizeHalfUp(value * 10, 10)

\* _build_dashboard_response
build_dashboard_response(daily_activity, daily_durations, daily_sentiment, avg_duration_minutes, current_tone, last_session_at, at) ==
    [ status |-> "ok",
      lastSession |-> last_session_at,
      streakDays |-> calculate_streak_days(daily_activity),
      dailyActivity |-> daily_activity,
      avgMinutes |-> avg_duration_minutes,
      dailyDurations |-> daily_durations,
      toneCurrent |-> current_tone,
      dailySentiment |-> [k \in DOMAIN daily_sentiment |-> to_optional_float(daily_sentiment[k])],
      lastUpdated |-> at ]

\* GET /api/dashboard/{user_id}
BeginRead(t, readers) ==
    /\ pc[t] = "idle"
    /\ \E u \in readers :
          req' = [req EXCEPT ![t] = [kind |-> "read", user_external_id |-> u]]
    /\ pc' = [pc EXCEPT ![t] = "read_user"]
    /\ tx' = [tx EXCEPT ![t] = EmptyTx]
    /\ UNCHANGED <<now, users, sessions, rollups, resp>>
    /\ UNCHANGED heartbeat_store
    /\ UNCHANGED <<command_store, audio_store>>

\* get_dashboard: look the user up, create and commit it when unknown
ReadUser(t) ==
    /\ pc[t] = "read_user"
    /\ LET external_id == req[t].user_external_id
       IN  /\ CopiesIn(external_id, users) > 0 \/ ~UserKeyHeld(t, external_id)
           /\ users' = users (+) SetToBag(InsertUserOnConflictDoNothing(t, external_id))
    /\ pc' = [pc EXCEPT ![t] = "read_rollup"]
    /\ UNCHANGED <<now, sessions, rollups, req, tx, resp>>
    /\ UNCHANGED heartbeat_store
    /\ UNCHANGED <<command_store, audio_store>>

\* (variant) the read recomputes the rollup from the stored sessions
ReadRollup_Recomputing(t) ==
    /\ pc[t] = "read_rollup"
    /\ LET user_id == req[t].user_external_id
           fresh == recompute_dashboard_rollup(sessions, user_id, now)
       IN  resp' = [resp EXCEPT ![t] =
              build_dashboard_response(
                  fresh.daily_activity, fresh.daily_durations, fresh.daily_sentiment,
                  fresh.avg_duration_minutes, fresh.current_tone, fresh.last_session_at, now)]
    /\ pc' = [pc EXCEPT ![t] = "done"]
    /\ UNCHANGED <<now, users, sessions, rollups, req, tx>>
    /\ UNCHANGED heartbeat_store
    /\ UNCHANGED <<command_store, audio_store>>

\* get_dashboard: serve the stored rollup, or the empty one
ReadRollup(t) ==
    /\ pc[t] = "read_rollup"
    /\ LET user_id == req[t].user_external_id
       IN  resp' = [resp EXCEPT ![t] =
              IF user_id \notin DOMAIN rollups
              THEN build_dashboard_response(
                       [k \in 1 .. WINDOW_DAYS |-> FALSE],
                       [k \in 1 .. WINDOW_DAYS |-> 0],
                       [k \in 1 .. WINDOW_DAYS |-> None],
                       0, "neutral", None, now)
              ELSE build_dashboard_response(
                       rollups[user_id].daily_activity,
                       rollups[user_id].daily_durations,
                       rollups[user_id].daily_sentiment,
                       rollups[user_id].avg_duration_minutes,
                       rollups[user_id].current_tone,
                       rollups[user_id].last_session_at, now)]
    /\ pc' = [pc EXCEPT ![t] = "done"]
    /\ UNCHANGED <<now, users, sessions, rollups, req, tx>>
    /\ UNCHANGED heartbeat_store
    /\ UNCHANGED <<command_store, audio_store>>

\* the response is sent; the slot is free for the next request
Finish(t) ==
    /\ pc[t] = "done"
    /\ pc' = [pc EXCEPT ![t] = "idle"]
    /\ req' = [req EXCEPT ![t] = NoReq]
    /\ resp' = [resp EXCEPT ![t] = NoResp]
    /\ UNCHANGED <<now, users, sessions, rollups, tx>>
    /\ UNCHANGED heartbeat_store
    /\ UNCHANGED <<command_store, audio_store>>

\* ---------------------------------------------------------------- heartbeat

\* services/heartbeat.py: STALE_MINUTES, RETENTION_DAYS, RAW_RETENTION_HOURS
STALE_MINUTES == 20

RETENTION_DAYS == 7

RAW_RETENTION_HOURS == 2

\* the latency, in ms, from which a device is no longer healthy
HealthyLatencyBelow == 500

SecondsPerMinute == 60

SecondsPerHour == 3600

\* the fields class HeartbeatRequest declares
HeartbeatRequestFields ==
    {"device_id", "agent_version", "connectivity", "network", "agent_status",
     "last_session_at", "timestamp"}

\* the fields of a request or of its network part that may be None
OptionalFields == {"last_session_at", "timestamp", "boot_time", "signal_rssi", "latency_ms"}

\* HeartbeatRequest(**body): the declared fields are kept, an absent optional
\* one is None, and any other key of the body is ignored (pydantic's default)
ParseHeartbeatRequest(body) ==
    [f \in HeartbeatRequestFields |-> IF f \in DOMAIN body THEN body[f] ELSE None]

\* the attributes of the request that record_heartbeat reads
RecordHeartbeatReads ==
    {"device_id", "agent_version", "connectivity", "agent_status", "last_session_at",
     "boot_time", "network"}

\* record_heartbeat reads an attribute the request model does not have:
\* AttributeError
record_heartbeat_raises(heartbeat) == RecordHeartbeatReads \ DOMAIN heartbeat # {}

\* the row record_heartbeat creates for the device, or the row it leaves
\* after overwriting every mutable column of the existing one
LatestHeartbeatRow(heartbeat, at) ==
    [ device_id |-> heartbeat.device_id,
      agent_version |-> heartbeat.agent_version,
      connectivity |-> heartbeat.connectivity,
      agent_status |-> heartbeat.agent_status,
      last_session_at |-> heartbeat.last_session_at,
      boot_time |-> heartbeat.boot_time,
      signal_rssi |-> heartbeat.network.signal_rssi,
      latency_ms |-> heartbeat.network.latency_ms,
      server_received_at |-> at ]

\* a dict without its None values
ExcludeNone(r) == [f \in {g \in DOMAIN r : g \notin OptionalFields \/ r[g] # None} |-> r[f]]

\* heartbeat.model_dump(mode="json", exclude_none=True)
model_dump(heartbeat) ==
    LET top == ExcludeNone(heartbeat)
    IN  [f \in DOMAIN top |-> IF f = "network" THEN ExcludeNone(top[f]) ELSE top[f]]

\* a fresh primary key of device_heartbeat_events (uuid4)
NewEventId(evts) ==
    LET ids == {e.id : e \in evts}
    IN  IF ids = {} THEN 1 ELSE 1 + (CHOOSE i \in ids : \A j \in ids : j <= i)

\* the raw event record_heartbeat adds
HeartbeatEvent(evts, heartbeat, at) ==
    [ id |-> NewEventId(evts),
      device_id |-> heartbeat.device_id,
      raw_payload |-> model_dump(heartbeat),
      server_received_at |-> at ]

\* db.get(DeviceLatestHeartbeat, device_id), then create or overwrite
UpsertLatest(stored, row) ==
    [d \in DOMAIN stored \cup {row.device_id} |->
        IF d = row.device_id THEN row ELSE stored[d]]

\* _as_utc of a stored timestamp (stored timestamps are UTC)
as_utc(value) == IF value = None THEN None ELSE value

\* (variant) a latency of exactly the threshold still counts as healthy
compute_status_Inclusive(hb, cutoff) ==
    IF as_utc(hb.server_received_at) = None \/ as_utc(hb.server_received_at) < cutoff
    THEN "dead"
    ELSE IF hb.agent_status = "ok" /\ hb.latency_ms # None
            /\ hb.latency_ms <= HealthyLatencyBelow
         THEN "healthy" ELSE "degraded"

\* _compute_status
compute_status(hb, cutoff) ==
    IF as_utc(hb.server_received_at) = None \/ as_utc(hb.server_received_at) < cutoff
    THEN "dead"
    ELSE IF hb.agent_status = "ok" /\ hb.latency_ms # None
            /\ hb.latency_ms < HealthyLatencyBelow
         THEN "healthy" ELSE "degraded"

\* HeartbeatStatus(...) of list_heartbeat_statuses: the declared fields
HeartbeatStatusOf(hb, cutoff) ==
    [ deviceId |-> hb.device_id,
      status |-> compute_status(hb, cutoff),
      lastSeen |-> as_utc(hb.server_received_at),
      connectivity |-> hb.connectivity,
      agentVersion |-> hb.agent_version,
      signalRssi |-> hb.signal_rssi,
      latencyMs |-> hb.latency_ms,
      lastSessionAt |-> as_utc(hb.last_session_at) ]

\* list_heartbeat_statuses: the status of every stored device, by device id
list_heartbeat_statuses(stored, at) ==
    LET cutoff == at - STALE_MINUTES * SecondsPerMinute
    IN  [d \in DOMAIN stored |-> HeartbeatStatusOf(stored[d], cutoff)]

\* ---------------------------------------------------------------- compaction

\* server_received_at.replace(minute=0, second=0, microsecond=0)
HourBucket(ts) == ts - (ts % SecondsPerHour)

\* dict.get(key, default)
Get(payload, key, default) == IF key \in DOMAIN payload THEN payload[key] ELSE default

\* payload.get("network", {}).get("latency_ms")
EventLatency(e) == Get(Get(e.raw_payload, "network", << >>), "latency_ms", None)

\* int(a / b) for b > 0: the quotient truncated toward zero
TruncDiv(a, b) == IF a >= 0 THEN a \div b ELSE -((-a) \div b)

\* Python's `a or b` on an optional integer: b when a is None or 0
PyOr(a, b) == IF a = None \/ a = 0 THEN b ELSE a

Min2(a, b) == IF a <= b THEN a ELSE b

Max2(a, b) == IF a >= b THEN a ELSE b

\* (variant) the event received exactly at the cutoff is selected as well
OldEvents_Inclusive(evts, at) ==
    {e \in evts : e.server_received_at <= at - RAW_RETENTION_HOURS * SecondsPerHour}

\* old_events: the raw events received before the cutoff
OldEvents(evts, at) ==
    {e \in evts : e.server_received_at < at - RAW_RETENTION_HOURS * SecondsPerHour}

\* (variant) a bucket takes the old events of its device from every hour
BucketEvents_AnyHour(old, key) == {e \in old : e.device_id = key[1]}

\* buckets[(device_id, hour_bucket)]
BucketEvents(old, key) ==
    {e \in old : e.device_id = key[1] /\ HourBucket(e.server_received_at) = key[2]}

RECURSIVE SumLatency(_)
SumLatency(evs) ==
    IF evs = {} THEN 0
    ELSE LET e == CHOOSE x \in evs : TRUE
         IN  EventLatency(e) + SumLatency(evs \ {e})

\* Counter(connectivities).most_common(1)[0][0]: the most frequent value, the
\* one seen first (events are ordered by server_received_at) among equals
ConnectivityMode(evs) ==
    LET Conn(e) == Get(e.raw_payload, "connectivity", "unknown")
        Count(c) == Cardinality({e \in evs : Conn(e) = c})
        First(c) == CHOOSE ts \in {e.server_received_at : e \in {x \in evs : Conn(x) = c}} :
                        \A e \in evs : Conn(e) = c => ts <= e.server_received_at
        values == {Conn(e) : e \in evs}
        top == {c \in values : \A o \in values : Count(o) <= Count(c)}
    IN  CHOOSE c \in top : \A o \in top : First(c) <= First(o)

\* (variant) only the events reporting "degraded" are counted as not ok
BucketAggregate_DegradedOnly(evs) ==
    LET sampled == {e \in evs : EventLatency(e) # None}
        latencies == {EventLatency(e) : e \in sampled}
        ok_count == Cardinality({e \in evs : Get(e.raw_payload, "agent_status", "") = "ok"})
    IN  [ count |-> Cardinality(evs),
          avg_latency |-> IF sampled = {} THEN None
                          ELSE TruncDiv(SumLatency(sampled), Cardinality(sampled)),
          min_latency |-> IF sampled = {} THEN None
                          ELSE CHOOSE m \in latencies : \A l \in latencies : m <= l,
          max_latency |-> IF sampled = {} THEN None
                          ELSE CHOOSE m \in latencies : \A l \in latencies : l <= m,
          connectivity_mode |-> ConnectivityMode(evs),
          ok_count |-> ok_count,
          degraded_count |->
              Cardinality({e \in evs : Get(e.raw_payload, "agent_status", "") = "degraded"}) ]

\* the aggregates of one bucket
BucketAggregate(evs) ==
    LET sampled == {e \in evs : EventLatency(e) # None}
        latencies == {EventLatency(e) : e \in sampled}
        ok_count == Cardinality({e \in evs : Get(e.raw_payload, "agent_status", "") = "ok"})
    IN  [ count |-> Cardinality(evs),
          avg_latency |-> IF sampled = {} THEN None
                          ELSE TruncDiv(SumLatency(sampled), Cardinality(sampled)),
          min_latency |-> IF sampled = {} THEN None
                          ELSE CHOOSE m \in latencies : \A l \in latencies : m <= l,
          max_latency |-> IF sampled = {} THEN None
                          ELSE CHOOSE m \in latencies : \A l \in latencies : l <= m,
          connectivity_mode |-> ConnectivityMode(evs),
          ok_count |-> ok_count,
          degraded_count |-> Cardinality(evs) - ok_count ]

\* (variant) the stored average weighted with the count after the increment
merged_avg_PostCount(old_avg, new_count, avg_latency, batch) ==
    TruncDiv(old_avg * new_count + avg_latency * batch, new_count)

\* the weighted average written to an existing summary that has an average;
\* new_count is heartbeat_count after `+= len(events)`
merged_avg_latency(old_avg, new_count, avg_latency, batch) ==
    TruncDiv(old_avg * (new_count - batch) + avg_latency * batch, new_count)

\* the update of an existing summary by a bucket's aggregates
MergeSummary(existing, agg) ==
    LET new_count == existing.heartbeat_count + agg.count
    IN  [ existing EXCEPT
            !.heartbeat_count = new_count,
            !.avg_latency_ms =
                IF agg.avg_latency = None THEN @
                ELSE IF @ # None
                     THEN merged_avg_latency(@, new_count, agg.avg_latency, agg.count)
                     ELSE agg.avg_latency,
            !.min_latency_ms =
                IF agg.min_latency = None THEN @
                ELSE Min2(PyOr(@, agg.min_latency), agg.min_latency),
            !.max_latency_ms =
                IF agg.max_latency = None THEN @
                ELSE Max2(PyOr(@, agg.max_latency), agg.max_latency),
            !.agent_status_ok_count = @ + agg.ok_count,
            !.agent_status_degraded_count = @ + agg.degraded_count ]

\* the summary inserted for a bucket without one
NewSummary(key, agg) ==
    [ device_id |-> key[1],
      hour_bucket |-> key[2],
      heartbeat_count |-> agg.count,
      avg_latency_ms |-> agg.avg_latency,
      min_latency_ms |-> agg.min_latency,
      max_latency_ms |-> agg.max_latency,
      connectivity_mode |-> agg.connectivity_mode,
      agent_status_ok_count |-> agg.ok_count,
      agent_status_degraded_count |-> agg.degraded_count,
      uptime_seconds |-> 0,
      reboot_count |-> 0 ]

\* the history after a pass has folded the events `old` into their buckets
Fold(history, old) ==
    LET keys == {<<e.device_id, HourBucket(e.server_received_at)>> : e \in old}
    IN  [key \in DOMAIN history \cup keys |->
            (IF key \in DOMAIN history THEN history[key] ELSE {})
                \cup BucketEvents(old, key)]

\* compact_heartbeat_events: the tables it leaves and the count it returns
compact_heartbeat_events(evts, sums, at) ==
    LET old_events == OldEvents(evts, at)
        keys == {<<e.device_id, HourBucket(e.server_received_at)>> : e \in old_events}
    IN  IF old_events = {} THEN [events |-> evts, summaries |-> sums, count |-> 0]
        ELSE [ events |-> evts \ old_events,
               summaries |->
                   [key \in DOMAIN sums \cup keys |->
                       IF key \notin keys THEN sums[key]
                       ELSE IF key \in DOMAIN sums
                            THEN MergeSummary(sums[key],
                                              BucketAggregate(BucketEvents(old_events, key)))
                            ELSE NewSummary(key,
                                            BucketAggregate(BucketEvents(old_events, key)))],
               count |-> Cardinality(old_events) ]

\* (variant) the event received exactly at the cutoff is deleted as well
cleanup_old_heartbeat_events_Inclusive(evts, at, retention_days) ==
    LET cutoff == at - retention_days * SecondsPerDay
        expired == {e \in evts : e.server_received_at <= cutoff}
    IN  [events |-> evts \ expired, count |-> Cardinality(expired)]

\* cleanup_old_heartbeat_events: the rows it leaves and its rowcount
cleanup_old_heartbeat_events(evts, at, retention_days) ==
    LET cutoff == at - retention_days * SecondsPerDay
        expired == {e \in evts : e.server_received_at < cutoff}
    IN  [events |-> evts \ expired, count |-> Cardinality(expired)]

\* maybe_cleanup_old_events: compaction and cleanup when the draw falls under
\* CLEANUP_PROBABILITY, nothing otherwise (deleted is None)
maybe_cleanup_old_events(evts, sums, at, drawn) ==
    IF drawn
    THEN LET compacted == compact_heartbeat_events(evts, sums, at)
             cleaned == cleanup_old_heartbeat_events(compacted.events, at, RETENTION_DAYS)
         IN  [ events |-> cleaned.events, summaries |-> compacted.summaries,
               compacted |-> compacted.count, deleted |-> cleaned.count ]
    ELSE [events |-> evts, summaries |-> sums, compacted |-> 0, deleted |-> None]

\* ------------------------------------------------------- heartbeat requests

\* POST /internal/heartbeat: the body is validated
BeginHeartbeat(t, bodies) ==
    /\ pc[t] = "idle"
    /\ \E body \in bodies :
          req' = [req EXCEPT ![t] =
                    [kind |-> "heartbeat", heartbeat |-> ParseHeartbeatRequest(body)]]
    /\ pc' = [pc EXCEPT ![t] = "heartbeat"]
    /\ tx' = [tx EXCEPT ![t] = EmptyTx]
    /\ UNCHANGED <<now, users, sessions, rollups, resp>>
    /\ UNCHANGED heartbeat_store
    /\ UNCHANGED <<command_store, audio_store>>

\* (variant) the raw event is added and committed before the latest row is built
Heartbeat_EventFirst(t) ==
    /\ pc[t] = "heartbeat"
    /\ events' = events \cup {HeartbeatEvent(events, req[t].heartbeat, now)}
    /\ resp' = [resp EXCEPT ![t] = [status |-> "error"]]
    /\ pc' = [pc EXCEPT ![t] = "done"]
    /\ UNCHANGED <<now, users, sessions, rollups, req, tx, latest, summaries>>
    /\ UNCHANGED <<passtx, folded>>
    /\ UNCHANGED <<command_store, audio_store>>

\* record_device_heartbeat: record_heartbeat, maybe_cleanup_old_events and
\* the one db.commit(); an exception of record_heartbeat leaves the handler
\* before anything is committed
Heartbeat(t) ==
    /\ pc[t] = "heartbeat"
    /\ IF record_heartbeat_raises(req[t].heartbeat)
       THEN /\ Rollback(t)
            /\ UNCHANGED heartbeat_store
            /\ resp' = [resp EXCEPT ![t] = [status |-> "error"]]
       ELSE \E drawn \in BOOLEAN :
              LET cleaned == maybe_cleanup_old_events(events, summaries, now, drawn)
              IN  /\ latest' = UpsertLatest(latest, LatestHeartbeatRow(req[t].heartbeat, now))
                  /\ events' = cleaned.events
                                  \cup {HeartbeatEvent(events, req[t].heartbeat, now)}
                  /\ summaries' = cleaned.summaries
                  /\ folded' = IF drawn THEN Fold(folded, OldEvents(events, now))
                                ELSE folded
                  /\ UNCHANGED passtx
                  /\ resp' = [resp EXCEPT ![t] = [status |-> "ok"]]
                  /\ tx' = [tx EXCEPT ![t] = EmptyTx]
                  /\ UNCHANGED <<users, sessions, rollups>>
    /\ pc' = [pc EXCEPT ![t] = "done"]
    /\ UNCHANGED <<now, req>>
    /\ UNCHANGED <<command_store, audio_store>>

\* GET /api/heartbeats
ListStatuses(t) ==
    /\ pc[t] = "idle"
    /\ req' = [req EXCEPT ![t] = [kind |-> "list"]]
    /\ resp' = [resp EXCEPT ![t] =
                  [ status |-> "ok",
                    devices |-> list_heartbeat_statuses(latest, now),
                    asOf |-> now,
                    staleThresholdMinutes |-> STALE_MINUTES ]]
    /\ pc' = [pc EXCEPT ![t] = "done"]
    /\ tx' = [tx EXCEPT ![t] = EmptyTx]
    /\ UNCHANGED <<now, users, sessions, rollups>>
    /\ UNCHANGED heartbeat_store
    /\ UNCHANGED <<command_store, audio_store>>

\* (variant) the pass also drops the latest rows older than the raw retention
CleanupPass_PruningLatest(t) ==
    /\ pc[t] = "idle"
    /\ LET cleaned == maybe_cleanup_old_events(events, summaries, now, TRUE)
       IN  /\ events' = cleaned.events
           /\ summaries' = cleaned.summaries
           /\ resp' = [resp EXCEPT ![t] =
                         [ status |-> "ok",
                           compacted |-> cleaned.compacted,
                           deleted |-> cleaned.deleted ]]
    /\ folded' = Fold(folded, OldEvents(events, now))
    /\ UNCHANGED passtx
    /\ latest' = [d \in {x \in DOMAIN latest :
                            latest[x].server_received_at
                                >= now - RAW_RETENTION_HOURS * SecondsPerHour} |-> latest[d]]
    /\ req' = [req EXCEPT ![t] = [kind |-> "cleanup"]]
    /\ pc' = [pc EXCEPT ![t] = "done"]
    /\ tx' = [tx EXCEPT ![t] = EmptyTx]
    /\ UNCHANGED <<now, users, sessions, rollups>>
    /\ UNCHANGED <<command_store, audio_store>>

\* maybe_cleanup_old_events with a draw under CLEANUP_PROBABILITY, applied
\* to the stored tables and committed
CleanupPass(t) ==
    /\ pc[t] = "idle"
    /\ LET cleaned == maybe_cleanup_old_events(events, summaries, now, TRUE)
       IN  /\ events' = cleaned.events
           /\ summaries' = cleaned.summaries
           /\ resp' = [resp EXCEPT ![t] =
                         [ status |-> "ok",
                           compacted |-> cleaned.compacted,
                           deleted |-> cleaned.deleted ]]
    /\ folded' = Fold(folded, OldEvents(events, now))
    /\ UNCHANGED passtx
    /\ req' = [req EXCEPT ![t] = [kind |-> "cleanup"]]
    /\ pc' = [pc EXCEPT ![t] = "done"]
    /\ tx' = [tx EXCEPT ![t] = EmptyTx]
    /\ UNCHANGED <<now, users, sessions, rollups, latest>>
    /\ UNCHANGED <<command_store, audio_store>>

\* cleanup_old_heartbeat_events(db, retention_days) on its own
Cleanup(t, retention_days) ==
    /\ pc[t] = "idle"
    /\ LET cleaned == cleanup_old_heartbeat_events(events, now, retention_days)
       IN  /\ events' = cleaned.events
           /\ resp' = [resp EXCEPT ![t] = [status |-> "ok", deleted |-> cleaned.count]]
    /\ req' = [req EXCEPT ![t] = [kind |-> "retention", retention_days |-> retention_days]]
    /\ pc' = [pc EXCEPT ![t] = "done"]
    /\ tx' = [tx EXCEPT ![t] = EmptyTx]
    /\ UNCHANGED <<now, users, sessions, rollups, latest, summaries>>
    /\ UNCHANGED <<passtx, folded>>
    /\ UNCHANGED <<command_store, audio_store>>

\* the statements of a compaction pass, one after the other, for passes whose
\* transactions overlap (READ COMMITTED: each statement sees what is
\* committed when it runs)

\* the buckets of the selected events
PassKeys(old) == {<<e.device_id, HourBucket(e.server_received_at)>> : e \in old}

\* the UPDATE the flush sends for a loaded summary: the columns the merge
\* changed, set to the values computed from the loaded row
FlushSummary(stored, loaded, merged) ==
    [f \in DOMAIN stored |-> IF merged[f] # loaded[f] THEN merged[f] ELSE stored[f]]

\* compact_heartbeat_events: the SELECT of the old events
PassSelect(t) ==
    /\ pc[t] = "idle"
    /\ req' = [req EXCEPT ![t] = [kind |-> "pass"]]
    /\ passtx' = [passtx EXCEPT ![t] = [NoPassTx EXCEPT !.old = OldEvents(events, now)]]
    /\ pc' = [pc EXCEPT ![t] = "pass_load"]
    /\ tx' = [tx EXCEPT ![t] = EmptyTx]
    /\ UNCHANGED <<now, users, sessions, rollups, resp, latest, events, summaries, folded>>
    /\ UNCHANGED <<command_store, audio_store>>

\* compact_heartbeat_events: db.get of the summary of every bucket
PassLoad(t) ==
    /\ pc[t] = "pass_load"
    /\ passtx' = [passtx EXCEPT ![t].loaded =
                     [key \in PassKeys(passtx[t].old) \cap DOMAIN summaries |-> summaries[key]]]
    /\ pc' = [pc EXCEPT ![t] = "pass_commit"]
    /\ UNCHANGED <<now, users, sessions, rollups, req, tx, resp, latest, events, summaries, folded>>
    /\ UNCHANGED <<command_store, audio_store>>

\* the DELETE of the selected ids, the cleanup, and the flush and commit of
\* the handler: the INSERT of a summary whose key is stored by now raises
\* IntegrityError and the transaction is rolled back
PassCommit(t) ==
    /\ pc[t] = "pass_commit"
    /\ LET old == passtx[t].old
           loaded == passtx[t].loaded
           keys == PassKeys(old)
           cleaned == cleanup_old_heartbeat_events(events \ old, now, RETENTION_DAYS)
       IN  IF (keys \ DOMAIN loaded) \cap DOMAIN summaries # {}
           THEN /\ resp' = [resp EXCEPT ![t] = [status |-> "error"]]
                /\ UNCHANGED <<events, summaries, folded>>
           ELSE /\ events' = cleaned.events
                /\ summaries' =
                      [key \in DOMAIN summaries \cup keys |->
                          IF key \notin keys THEN summaries[key]
                          ELSE IF key \in DOMAIN loaded
                               THEN FlushSummary(summaries[key], loaded[key],
                                        MergeSummary(loaded[key],
                                            BucketAggregate(BucketEvents(old, key))))
                               ELSE NewSummary(key, BucketAggregate(BucketEvents(old, key)))]
                /\ folded' = Fold(folded, old)
                /\ resp' = [resp EXCEPT ![t] =
                              [ status |-> "ok",
                                compacted |-> Cardinality(old),
                                deleted |-> cleaned.count ]]
    /\ passtx' = [passtx EXCEPT ![t] = NoPassTx]
    /\ pc' = [pc EXCEPT ![t] = "done"]
    /\ UNCHANGED <<now, users, sessions, rollups, req, tx, latest>>
    /\ UNCHANGED <<command_store, audio_store>>

\* ----------------------------------------------------------- device commands

\* None in a nullable text column
Null == "null"

\* the statuses CommandStatusUpdate accepts
REPORTABLE == {"COMPLETED", "FAILED"}

\* the row queue_command inserts: the id is a fresh key, created_at the
\* store's clock at the insert, which is later at every later insert
\* (payload is never set and updated_at is never read)
NewCommand(rows, device_id, command_type) ==
    [ id |-> Cardinality(DOMAIN rows) + 1,
      device_id |-> device_id,
      command_type |-> command_type,
      status |-> "PENDING",
      error_message |-> Null,
      created_at |-> Cardinality(DOMAIN rows) + 1 ]

\* queue_command and the commit of create_command
queue_command(rows, device_id, command_type) ==
    LET command == NewCommand(rows, device_id, command_type)
    IN  [id \in DOMAIN rows \cup {command.id} |->
            IF id = command.id THEN command ELSE rows[id]]

\* the rows the SELECT of get_pending_command sees when it starts
PendingSnapshot(rows, device_id) ==
    {id \in DOMAIN rows : rows[id].device_id = device_id /\ rows[id].status = "PENDING"}

\* (variant) the SELECT takes no row lock: nobody ever waits
LockedByOther_NoLock(t, id) == FALSE

\* another open transaction holds the row lock of command id
LockedByOther(t, id) == \E o \in Slots \ {t} : id \in cmdtx[o].locked

\* (variant) the rows of the snapshot are not checked again once locked
StillPending_NoRecheck(rows, snapshot) == snapshot

\* the rows of a snapshot that still are PENDING in their latest committed
\* version (the re-check of the WHERE clause when a row is locked)
StillPending(rows, snapshot) == {id \in snapshot : rows[id].status = "PENDING"}

\* (variant) the newest of the rows comes first
Oldest_Newest(rows, ids) ==
    CHOOSE id \in ids : \A o \in ids : rows[id].created_at >= rows[o].created_at

\* ORDER BY created_at ASC LIMIT 1
Oldest(rows, ids) ==
    CHOOSE id \in ids : \A o \in ids : rows[id].created_at <= rows[o].created_at

\* PendingCommandResponse
PendingCommandResponse(command) ==
    [ id |-> command.id,
      command_type |-> command.command_type,
      created_at |-> command.created_at ]

\* the columns update_command_status changes on the loaded row: the flush
\* writes those whose new value differs
ChangedColumns(command, status, error) ==
    {c \in {"status"} : command.status # status}
        \cup {c \in {"error_message"} : command.error_message # error}

\* POST /admin/commands: the whole handler
Enqueue(t, devices, types) ==
    /\ pc[t] = "idle"
    /\ Cardinality(DOMAIN commands) < MaxCommands
    /\ \E device_id \in devices, command_type \in types :
          /\ req' = [req EXCEPT ![t] =
                        [ kind |-> "enqueue",
                          device_id |-> device_id,
                          command |-> command_type ]]
          /\ commands' = queue_command(commands, device_id, command_type)
          /\ resp' = [resp EXCEPT ![t] =
                        [ status |-> "created",
                          command |-> NewCommand(commands, device_id, command_type) ]]
    /\ pc' = [pc EXCEPT ![t] = "done"]
    /\ UNCHANGED <<now, users, sessions, rollups, tx, cmdtx>>
    /\ UNCHANGED <<heartbeat_store, audio_store>>

\* GET /internal/commands/pending: without X-Device-ID the answer is no
\* command; otherwise the SELECT starts and takes its snapshot
BeginPoll(t, devices) ==
    /\ pc[t] = "idle"
    /\ \E x_device_id \in devices \cup {""} :
          /\ req' = [req EXCEPT ![t] = [kind |-> "poll", device_id |-> x_device_id]]
          /\ IF x_device_id = ""
             THEN /\ resp' = [resp EXCEPT ![t] = [status |-> "ok", command |-> {}]]
                  /\ pc' = [pc EXCEPT ![t] = "done"]
                  /\ UNCHANGED cmdtx
             ELSE /\ cmdtx' = [cmdtx EXCEPT ![t] =
                                  [NoCmdTx EXCEPT
                                      !.snapshot = PendingSnapshot(commands, x_device_id)]]
                  /\ pc' = [pc EXCEPT ![t] = "poll_select"]
                  /\ UNCHANGED resp
    /\ UNCHANGED <<now, users, sessions, rollups, tx, commands>>
    /\ UNCHANGED <<heartbeat_store, audio_store>>

\* get_pending_command: SELECT ... ORDER BY created_at LIMIT 1 FOR UPDATE
\* waits while the first row that may still qualify is locked, skips the rows
\* that left PENDING meanwhile, locks the row it returns and marks it
\* PICKED_UP in its transaction
PollSelect(t) ==
    /\ pc[t] = "poll_select"
    /\ LET pending == StillPending(commands, cmdtx[t].snapshot)
       IN  IF pending = {}
           THEN UNCHANGED cmdtx
           ELSE /\ ~LockedByOther(t, Oldest(commands, pending))
                /\ cmdtx' = [cmdtx EXCEPT ![t].locked = {Oldest(commands, pending)}]
    /\ pc' = [pc EXCEPT ![t] = "poll_commit"]
    /\ UNCHANGED <<now, users, sessions, rollups, req, tx, resp, commands>>
    /\ UNCHANGED <<heartbeat_store, audio_store>>

\* poll_pending_command: db.commit() and the response (command None is the
\* empty set)
PollCommit(t) ==
    /\ pc[t] = "poll_commit"
    /\ commands' = [id \in DOMAIN commands |->
                       IF id \in cmdtx[t].locked
                       THEN [commands[id] EXCEPT !.status = "PICKED_UP"]
                       ELSE commands[id]]
    /\ resp' = [resp EXCEPT ![t] =
                  [ status |-> "ok",
                    command |-> {PendingCommandResponse(commands[id]) :
                                    id \in cmdtx[t].locked} ]]
    /\ cmdtx' = [cmdtx EXCEPT ![t] = NoCmdTx]
    /\ pc' = [pc EXCEPT ![t] = "done"]
    /\ UNCHANGED <<now, users, sessions, rollups, req, tx>>
    /\ UNCHANGED <<heartbeat_store, audio_store>>

\* POST /internal/commands/{command_id}/status: the body is validated
BeginReport(t, ids, statuses, errors) ==
    /\ pc[t] = "idle"
    /\ \E command_id \in ids, status \in statuses, error \in errors :
          /\ req' = [req EXCEPT ![t] =
                        [ kind |-> "report",
                          command_id |-> command_id,
                          status |-> status,
                          error |-> error ]]
          /\ IF status \in REPORTABLE
             THEN /\ pc' = [pc EXCEPT ![t] = "report_load"]
                  /\ UNCHANGED resp
             ELSE /\ pc' = [pc EXCEPT ![t] = "done"]
                  /\ resp' = [resp EXCEPT ![t] = [status |-> "422"]]
    /\ UNCHANGED <<now, users, sessions, rollups, tx>>
    /\ UNCHANGED <<heartbeat_store, command_store, audio_store>>

\* (variant) an unknown id is answered like a rejected body
ReportLoad_Unprocessable(t) ==
    /\ pc[t] = "report_load"
    /\ IF req[t].command_id \in DOMAIN commands
       THEN /\ cmdtx' = [cmdtx EXCEPT ![t] =
                            [NoCmdTx EXCEPT !.loaded = {commands[req[t].command_id]}]]
            /\ pc' = [pc EXCEPT ![t] = "report_commit"]
            /\ UNCHANGED resp
       ELSE /\ resp' = [resp EXCEPT ![t] = [status |-> "422"]]
            /\ pc' = [pc EXCEPT ![t] = "done"]
            /\ UNCHANGED cmdtx
    /\ UNCHANGED <<now, users, sessions, rollups, req, tx, commands>>
    /\ UNCHANGED <<heartbeat_store, audio_store>>

\* update_command_status: db.get; an unknown id ends the request with 404
ReportLoad(t) ==
    /\ pc[t] = "report_load"
    /\ IF req[t].command_id \in DOMAIN commands
       THEN /\ cmdtx' = [cmdtx EXCEPT ![t] =
                            [NoCmdTx EXCEPT !.loaded = {commands[req[t].command_id]}]]
            /\ pc' = [pc EXCEPT ![t] = "report_commit"]
            /\ UNCHANGED resp
       ELSE /\ resp' = [resp EXCEPT ![t] = [status |-> "404", detail |-> "Command not found"]]
            /\ pc' = [pc EXCEPT ![t] = "done"]
            /\ UNCHANGED cmdtx
    /\ UNCHANGED <<now, users, sessions, rollups, req, tx, commands>>
    /\ UNCHANGED <<heartbeat_store, audio_store>>

\* update_command_status: status and error_message are set on the loaded row
\* and flushed (the UPDATE waits for the row lock), then report_command_status
\* commits
ReportCommit(t) ==
    /\ pc[t] = "report_commit"
    /\ LET command == CHOOSE c \in cmdtx[t].loaded : TRUE
           changed == ChangedColumns(command, req[t].status, req[t].error)
       IN  IF changed = {}
           THEN UNCHANGED commands
           ELSE /\ ~LockedByOther(t, command.id)
                /\ commands' = [commands EXCEPT ![command.id] =
                                   [@ EXCEPT
                                       !.status =
                                           IF "status" \in changed THEN req[t].status ELSE @,
                                       !.error_message =
                                           IF "error_message" \in changed
                                           THEN req[t].error ELSE @]]
    /\ resp' = [resp EXCEPT ![t] = [status |-> "ok"]]
    /\ cmdtx' = [cmdtx EXCEPT ![t] = NoCmdTx]
    /\ pc' = [pc EXCEPT ![t] = "done"]
    /\ UNCHANGED <<now, users, sessions, rollups, req, tx>>
    /\ UNCHANGED <<heartbeat_store, audio_store>>

\* ------------------------------------------------------------ audio uploads

\* the object key of a recording: upload_audio files the blob under the
\* device and day by recording id and codec, upload_session_audio under the
\* session folder by turn and role
AudioKey(endpoint, meta) ==
    IF endpoint = "audio"
    THEN [ folder |-> meta.device_id, day |-> meta.recorded_at \div SecondsPerDay,
           session |-> "", turn |-> 0, name |-> meta.recording_id,
           ext |-> IF meta.codec = "opus" THEN "opus" ELSE "flac" ]
    ELSE [ folder |-> meta.device_id, day |-> meta.recorded_at \div SecondsPerDay,
           session |-> meta.session_id, turn |-> meta.turn_number, name |-> meta.role,
           ext |-> "flac" ]

\* the key of manifest.json in the session folder
ManifestKey(meta) ==
    [ folder |-> meta.device_id, day |-> meta.recorded_at \div SecondsPerDay,
      session |-> meta.session_id, turn |-> 0, name |-> "manifest", ext |-> "json" ]

\* the key of the participant's index.json
ParticipantIndexKey(meta) ==
    [ folder |-> "participants", day |-> 0,
      session |-> "", turn |-> 0, name |-> meta.participant_id, ext |-> "json" ]

\* the AudioRecording row of an upload
AudioRecordingRow(endpoint, meta) ==
    [ id |-> meta.recording_id,
      session_id |-> meta.session_id,
      device_id |-> meta.device_id,
      participant_id |-> meta.participant_id,
      turn_number |-> meta.turn_number,
      role |-> meta.role,
      codec |-> IF endpoint = "audio" THEN meta.codec ELSE "flac",
      storage_url |-> AudioKey(endpoint, meta) ]

\* the insert breaks the primary key or uq_audio_session_turn
AudioConflict(rows, row) ==
    \E r \in rows :
        \/ r.id = row.id
        \/ r.session_id = row.session_id /\ r.turn_number = row.turn_number

\* POST /internal/ingest/audio and /internal/ingest/session_audio: without an
\* object store client the answer is 503, upload_session_audio rejects a role
\* other than user and assistant with 400
BeginAudio(t, endpoints, metas) ==
    /\ pc[t] = "idle"
    /\ \E endpoint \in endpoints, meta \in metas, configured \in BOOLEAN :
          /\ req' = [req EXCEPT ![t] =
                        [kind |-> "upload", endpoint |-> endpoint, meta |-> meta]]
          /\ IF ~configured
             THEN /\ resp' = [resp EXCEPT ![t] = [status |-> "503"]]
                  /\ pc' = [pc EXCEPT ![t] = "done"]
             ELSE IF endpoint = "session_audio" /\ meta.role \notin {"user", "assistant"}
             THEN /\ resp' = [resp EXCEPT ![t] = [status |-> "400"]]
                  /\ pc' = [pc EXCEPT ![t] = "done"]
             ELSE /\ pc' = [pc EXCEPT ![t] = "audio_put"]
                  /\ UNCHANGED resp
    /\ UNCHANGED <<now, users, sessions, rollups, tx>>
    /\ UNCHANGED <<heartbeat_store, command_store, audio_store>>

\* (variant) a failed put is logged and the handler goes on
AudioPut_IgnoringFailure(t) ==
    /\ pc[t] = "audio_put"
    /\ \E returned \in BOOLEAN :
          /\ blobs' = IF returned
                      THEN blobs \cup {AudioKey(req[t].endpoint, req[t].meta)}
                      ELSE blobs
          /\ pc' = [pc EXCEPT ![t] =
                       IF req[t].endpoint = "session_audio"
                       THEN "audio_manifest" ELSE "audio_commit"]
          /\ UNCHANGED resp
    /\ UNCHANGED <<now, users, sessions, rollups, req, tx, recordings>>
    /\ UNCHANGED <<heartbeat_store, command_store>>

\* r2.put_object of the audio blob: it returns, or it raises and the request
\* ends with the error (the object store may or may not have kept the blob)
AudioPut(t) ==
    /\ pc[t] = "audio_put"
    /\ \E returned \in BOOLEAN, kept \in BOOLEAN :
          /\ blobs' = IF returned \/ kept
                      THEN blobs \cup {AudioKey(req[t].endpoint, req[t].meta)}
                      ELSE blobs
          /\ IF returned
             THEN /\ pc' = [pc EXCEPT ![t] =
                              IF req[t].endpoint = "session_audio"
                              THEN "audio_manifest" ELSE "audio_commit"]
                  /\ UNCHANGED resp
             ELSE /\ pc' = [pc EXCEPT ![t] = "done"]
                  /\ resp' = [resp EXCEPT ![t] = [status |-> "error", step |-> "audio_put"]]
    /\ UNCHANGED <<now, users, sessions, rollups, req, tx, recordings>>
    /\ UNCHANGED <<heartbeat_store, command_store>>

\* upload_session_audio: the manifest is read (or started), updated and put,
\* which may raise; the participant index is updated if there is a
\* participant, and a failure of that is only logged
AudioManifest(t) ==
    /\ pc[t] = "audio_manifest"
    /\ \E returned \in BOOLEAN, indexed \in BOOLEAN :
          IF returned
          THEN /\ blobs' = blobs \cup {ManifestKey(req[t].meta)}
                              \cup IF indexed /\ req[t].meta.participant_id # Null
                                   THEN {ParticipantIndexKey(req[t].meta)} ELSE {}
               /\ pc' = [pc EXCEPT ![t] = "audio_commit"]
               /\ UNCHANGED resp
          ELSE /\ UNCHANGED blobs
               /\ pc' = [pc EXCEPT ![t] = "done"]
               /\ resp' = [resp EXCEPT ![t] = [status |-> "error", step |-> "audio_manifest"]]
    /\ UNCHANGED <<now, users, sessions, rollups, req, tx, recordings>>
    /\ UNCHANGED <<heartbeat_store, command_store>>

\* db.add(audio_record); db.commit(): the row is stored unless it breaks a
\* unique key, in which case the commit raises
AudioCommit(t) ==
    /\ pc[t] = "audio_commit"
    /\ LET audio_record == AudioRecordingRow(req[t].endpoint, req[t].meta)
       IN  IF AudioConflict(recordings, audio_record)
           THEN /\ UNCHANGED recordings
                /\ resp' = [resp EXCEPT ![t] = [status |-> "error", step |-> "audio_commit"]]
           ELSE /\ recordings' = recordings \cup {audio_record}
                /\ resp' = [resp EXCEPT ![t] =
                              [status |-> "ok", url |-> audio_record.storage_url]]
    /\ pc' = [pc EXCEPT ![t] = "done"]
    /\ UNCHANGED <<now, users, sessions, rollups, req, tx, blobs>>
    /\ UNCHANGED <<heartbeat_store, command_store>>

\* ----------------------------------------------------------- specifications

Payload(session_id, user_external_id, started_at, duration_seconds, sentiment_score) ==
    [ session_id |-> session_id,
      user_external_id |-> user_external_id,
      started_at |-> started_at,
      duration_seconds |-> duration_seconds,
      sentiment_score |-> sentiment_score ]

\* requests of the concurrent runs: three sessions, two users, two days
PayloadsConcurrent ==
    { Payload(sid, "u1", at, 90, 620) :
        sid \in SessionIds,
        at \in {At(Day0, 9 * 3600, 0), At(Day0 - 1, 15 * 3600, 0)} }

\* requests that all carry one session id
PayloadsSameSession ==
    { Payload("s1", u, at, 90, 620) :
        u \in UserIds,
        at \in {At(Day0, 9 * 3600, 0), At(Day0 - 1, 15 * 3600, 0)} }

\* requests around the edges of the window: the first second of the oldest
\* day and the second before it (given with a +00:00:01 offset), 23:50 of
\* today running past midnight, a start of tomorrow 00:30 +01:00 that is
\* still today in UTC, and tomorrow morning
PayloadsWindow ==
    { Payload(sid, "u1", at, 1200, 620) :
        sid \in {"s1", "s2"},
        at \in { At(Day0 - 6, 0, 0), At(Day0 - 6, 0, 1),
                 At(Day0, 23 * 3600 + 50 * 60, 0),
                 At(Day0 + 1, 9 * 3600, 0) } }
    \cup { Payload(sid, "u1", At(Day0 + 1, 1800, 3600), 7200, 620) : sid \in {"s1", "s2"} }

\* requests whose durations exercise the rounding of minutes and of their mean
PayloadsDuration ==
    { Payload("s1", "u1", At(Day0 - 2, 15 * 3600, 0), d, 620) : d \in {30, 90, 180} }
    \cup { Payload("s2", "u1", at, d, 590) :
             d \in {0, 119, 150},
             at \in {At(Day0 - 1, 15 * 3600, 0), At(Day0 - 2, 23 * 3600 + 59 * 60, 0)} }
    \cup { Payload("s3", "u1", At(Day0, 9 * 3600, 0), d, 390) : d \in {90, 180, 360} }

\* requests whose scores sit on the tone thresholds and on a rounding tie
PayloadsTone ==
    { Payload("s1", "u1", At(Day0 - 1, 15 * 3600, 0), 90, v) :
        v \in {390, 395, 400, 600, 610} }
    \cup { Payload("s2", "u1", at, 90, v) :
             v \in {610, 300},
             at \in {At(Day0 - 1, 16 * 3600, 0), At(Day0 - 3, 15 * 3600, 0)} }
    \cup { Payload("s3", "u1", At(Day0, 9 * 3600, 0), 90, v) : v \in {200, 900} }
    \cup { Payload("s3", "u1", At(Day0 - 6, 9 * 3600, 0), 90, 200) }

\* the steps of the handlers running in the given slots on the given requests
Step(slots, payloads, readers) ==
    \E t \in slots :
        \/ BeginIngest(t, payloads)
        \/ IngestUser(t)
        \/ IngestSession(t)
        \/ IngestRecompute(t)
        \/ IngestCommit(t)
        \/ IngestCommitDuplicate(t)
        \/ BeginRead(t, readers)
        \/ ReadUser(t)
        \/ ReadRollup(t)
        \/ Finish(t)

\* concurrent requests
Next == Step(Slots, PayloadsConcurrent, {"u1"})

Spec == Init /\ [][Next]_vars

\* concurrent requests with one session id
NextSameSession == Step(Slots, PayloadsSameSession, {"u1"})

SpecSameSession == Init /\ [][NextSameSession]_vars

\* one request at a time, around the edges of the window
NextWindow == Tick \/ Step({1}, PayloadsWindow, UserIds)

SpecWindow == Init /\ [][NextWindow]_vars

\* one request at a time, durations
NextDuration == Tick \/ Step({1}, PayloadsDuration, {"u1"})

SpecDuration == Init /\ [][NextDuration]_vars

\* one request at a time, sentiment scores
NextTone == Tick \/ Step({1}, PayloadsTone, {"u1"})

SpecTone == Init /\ [][NextTone]_vars

\* requests of the runs in which the store may fail
PayloadsFault == { Payload(sid, "u1", At(Day0, 9 * 3600, 0), 90, 620) : sid \in {"s1", "s2"} }

\* concurrent requests against a store that may fail at any step of an ingest
NextFault == Step(Slots, PayloadsFault, {"u1"}) \/ \E t \in Slots : StorageFailure(t)

SpecFault == Init /\ [][NextFault]_vars

\* the state of the request slots and of the rollup tables at start
InitRequests ==
    /\ now = NowInit
    /\ users = EmptyBag
    /\ sessions = EmptyBag
    /\ rollups = << >>
    /\ pc = [t \in Slots |-> "idle"]
    /\ req = [t \in Slots |-> NoReq]
    /\ tx = [t \in Slots |-> EmptyTx]
    /\ resp = [t \in Slots |-> NoResp]
    /\ commands = << >>
    /\ cmdtx = [t \in Slots |-> NoCmdTx]
    /\ recordings = {}
    /\ blobs = {}
    /\ passtx = [t \in Slots |-> NoPassTx]
    /\ folded = << >>

\* a JSON body of POST /internal/heartbeat
HeartbeatBody(device_id, agent_status, latency_ms, boot_time) ==
    [ device_id |-> device_id,
      agent_version |-> "1.2.3",
      connectivity |-> "lte",
      network |-> [signal_rssi |-> -62, latency_ms |-> latency_ms],
      agent_status |-> agent_status,
      last_session_at |-> None,
      boot_time |-> boot_time,
      timestamp |-> NowInit ]

\* bodies of a known and of a new device, with and without a boot time
HeartbeatBodies ==
    { HeartbeatBody(d, "ok", 43, b) : d \in {"d1", "d3"}, b \in {None, NowInit - SecondsPerHour} }

\* a row of device_latest_heartbeat recorded before boot_time was introduced
\* (migration 202512050001 adds the column, nullable, to the existing rows)
StoredHeartbeat(device_id, agent_status, latency_ms, server_received_at) ==
    [ device_id |-> device_id,
      agent_version |-> "1.2.2",
      connectivity |-> "wifi",
      agent_status |-> agent_status,
      last_session_at |-> None,
      boot_time |-> None,
      signal_rssi |-> -62,
      latency_ms |-> latency_ms,
      server_received_at |-> server_received_at ]

\* the heartbeat tables hold one crashed device and one device whose status,
\* latency and age sit on the thresholds of the classification
InitHeartbeat ==
    /\ InitRequests
    /\ \E agent_status \in {"ok", "degraded"}, latency_ms \in {499, 500, None},
          age \in {0, STALE_MINUTES * SecondsPerMinute, STALE_MINUTES * SecondsPerMinute + 1} :
          latest = [d \in {"d1", "d2"} |->
                      IF d = "d1"
                      THEN StoredHeartbeat(d, agent_status, latency_ms, NowInit - age)
                      ELSE StoredHeartbeat(d, "crashed", 100, NowInit)]
    /\ events = {}
    /\ summaries = << >>

\* heartbeats and listings, one request at a time, while the clock advances
NextHeartbeat ==
    \/ Tick
    \/ \E t \in {1} :
          \/ BeginHeartbeat(t, HeartbeatBodies)
          \/ Heartbeat(t)
          \/ ListStatuses(t)
          \/ Finish(t)

SpecHeartbeat == InitHeartbeat /\ [][NextHeartbeat]_vars

\* the start of the hour that ended one hour before the first cutoff
Hour0 == HourBucket(NowInit - (RAW_RETENTION_HOURS + 1) * SecondsPerHour)

\* a stored raw event, with the payload an earlier heartbeat dumped
StoredEvent(id, device_id, latency_ms, connectivity, agent_status, server_received_at) ==
    [ id |-> id,
      device_id |-> device_id,
      raw_payload |->
          model_dump(ParseHeartbeatRequest(
              [ device_id |-> device_id,
                agent_version |-> "1.2.2",
                connectivity |-> connectivity,
                network |-> [signal_rssi |-> -62, latency_ms |-> latency_ms],
                agent_status |-> agent_status ])),
      server_received_at |-> server_received_at ]

\* stored raw events: five of one device in one hour with latencies averaging
\* 200, one without latency in the last second of that hour, one received
\* exactly at the first cutoff, and one of another device
EventPool ==
    { StoredEvent(1, "d1", 100, "wifi", "ok", Hour0 + 60),
      StoredEvent(2, "d1", 200, "lte", "ok", Hour0 + 120),
      StoredEvent(3, "d1", 300, "lte", "degraded", Hour0 + 180),
      StoredEvent(4, "d1", 200, "wifi", "ok", Hour0 + 240),
      StoredEvent(5, "d1", 200, "lte", "crashed", Hour0 + 300),
      StoredEvent(6, "d1", None, "offline", "ok", Hour0 + SecondsPerHour - 1),
      StoredEvent(7, "d1", 50, "wifi", "ok", Hour0 + SecondsPerHour),
      StoredEvent(8, "d2", 40, "wifi", "ok", Hour0 + 60) }

\* a summary an earlier pass left for the first device and Hour0
StoredSummary ==
    [ device_id |-> "d1",
      hour_bucket |-> Hour0,
      heartbeat_count |-> 10,
      avg_latency_ms |-> 100,
      min_latency_ms |-> 80,
      max_latency_ms |-> 120,
      connectivity_mode |-> "wifi",
      agent_status_ok_count |-> 10,
      agent_status_degraded_count |-> 0,
      uptime_seconds |-> 0,
      reboot_count |-> 0 ]

\* any of the stored events, with or without the stored summary
InitCompaction ==
    /\ InitRequests
    /\ latest = << >>
    /\ events \in SUBSET EventPool
    /\ summaries \in { << >>, [key \in {<<"d1", Hour0>>} |-> StoredSummary] }

\* compaction passes while the clock advances
NextCompaction ==
    \/ Tick
    \/ \E t \in {1} : CleanupPass(t) \/ Finish(t)

SpecCompaction == InitCompaction /\ [][NextCompaction]_vars

\* a quarter of an hour
QuarterStep == SecondsPerHour \div 4

\* the clock advances by a quarter of an hour
TickQuarter ==
    /\ now + QuarterStep <= NowInit + MaxTicks * QuarterStep
    /\ now' = now + QuarterStep
    /\ UNCHANGED <<users, sessions, rollups, pc, req, tx, resp>>
    /\ UNCHANGED heartbeat_store
    /\ UNCHANGED <<command_store, audio_store>>

\* the hour that starts at the first cutoff: its events turn old one quarter
\* after the other
Hour1 == HourBucket(NowInit - RAW_RETENTION_HOURS * SecondsPerHour)

\* stored raw events of one device in Hour1: two in its first quarter, one of
\* them with a latency of 0, and three in its second quarter, one of them
\* without latency
MergePool ==
    { StoredEvent(11, "d1", 0, "wifi", "ok", Hour1 + 300),
      StoredEvent(12, "d1", 70, "lte", "degraded", Hour1 + 600),
      StoredEvent(13, "d1", 50, "wifi", "ok", Hour1 + 1200),
      StoredEvent(14, "d1", None, "offline", "crashed", Hour1 + 1500),
      StoredEvent(15, "d1", 20, "lte", "ok", Hour1 + 1700) }

\* any of these events, and no summary yet
InitMerge ==
    /\ InitRequests
    /\ latest = << >>
    /\ events \in SUBSET MergePool
    /\ summaries = << >>

\* compaction passes while the clock advances through one hour
NextMerge ==
    \/ TickQuarter
    \/ \E t \in {1} : CleanupPass(t) \/ Finish(t)

SpecMerge == InitMerge /\ [][NextMerge]_vars

\* stored raw events around the retention cutoffs: one older than the
\* retention, one received exactly RETENTION_DAYS before the start, one a
\* second older than a day, and one of the last hour
RetentionPool ==
    { StoredEvent(21, "d1", 100, "wifi", "ok", NowInit - (RETENTION_DAYS + 1) * SecondsPerDay),
      StoredEvent(22, "d1", 200, "lte", "ok", NowInit - RETENTION_DAYS * SecondsPerDay),
      StoredEvent(23, "d2", 300, "lte", "crashed", NowInit - SecondsPerDay - 1),
      StoredEvent(24, "d1", 50, "wifi", "ok", NowInit - SecondsPerHour) }

\* the retention periods cleanup is called with
RetentionChoices == {1, RETENTION_DAYS}

\* the latest rows of two devices
RetentionLatest ==
    [d \in {"d1", "d2"} |->
        IF d = "d1"
        THEN StoredHeartbeat(d, "ok", 100, NowInit - SecondsPerMinute)
        ELSE StoredHeartbeat(d, "crashed", 100, NowInit - SecondsPerHour)]

\* any of these events, no summary, and the latest rows
InitRetention ==
    /\ InitRequests
    /\ latest = RetentionLatest
    /\ events \in SUBSET RetentionPool
    /\ summaries = << >>

\* cleanups, compaction passes and listings while the clock advances
NextRetention ==
    \/ Tick
    \/ \E t \in {1} :
          \/ \E retention_days \in RetentionChoices : Cleanup(t, retention_days)
          \/ CleanupPass(t)
          \/ ListStatuses(t)
          \/ Finish(t)

SpecRetention == InitRetention /\ [][NextRetention]_vars

\* requests of two users, each with sessions of its own
PayloadsEntity ==
    { Payload("s1", "u1", At(Day0, 9 * 3600, 0), 90, 620),
      Payload("s2", "u2", At(Day0, 10 * 3600, 0), 1200, 300),
      Payload("s3", "u2", At(Day0 - 1, 15 * 3600, 0), 600, 800) }

\* stored raw events of two devices: one old event each and a recent one
EntityPool ==
    { StoredEvent(31, "d1", 100, "wifi", "ok", Hour0 + 60),
      StoredEvent(32, "d2", 40, "lte", "crashed", Hour0 + 120),
      StoredEvent(33, "d2", 60, "lte", "ok", NowInit - SecondsPerMinute) }

\* the latest rows of two devices and any of these events
InitEntity ==
    /\ InitRequests
    /\ latest = RetentionLatest
    /\ events \in SUBSET EntityPool
    /\ summaries = << >>

\* ingests and reads of two users, heartbeats of two devices and compaction
\* passes, one request at a time
NextEntity ==
    \/ Step({1}, PayloadsEntity, {"u1"})
    \/ \E t \in {1} :
          \/ BeginHeartbeat(t, HeartbeatBodies)
          \/ Heartbeat(t)
          \/ CleanupPass(t)

SpecEntity == InitEntity /\ [][NextEntity]_vars

\* stored raw events of two devices: those of MergePool, two of a second
\* device in the same hour and one of the first device in the hour before
FleetPool ==
    MergePool \cup
    { StoredEvent(16, "d2", 90, "lte", "ok", Hour1 + 300),
      StoredEvent(17, "d2", 110, "wifi", "degraded", Hour1 + 1200),
      StoredEvent(18, "d1", 30, "wifi", "ok", Hour0 + 60) }

\* the latest rows of two devices, any of these events, and no summary yet
InitFleet ==
    /\ InitRequests
    /\ latest = RetentionLatest
    /\ events \in SUBSET FleetPool
    /\ summaries = << >>

\* heartbeat requests and compaction passes, one at a time, while the clock
\* advances through one hour
NextFleet ==
    \/ TickQuarter
    \/ \E t \in {1} :
          \/ BeginHeartbeat(t, HeartbeatBodies)
          \/ Heartbeat(t)
          \/ CleanupPass(t)
          \/ Finish(t)

SpecFleet == InitFleet /\ [][NextFleet]_vars

\* stored raw events of one bucket for the overlapping passes
PassPool == {e \in MergePool : e.id \in {11, 12, 13, 15}}

\* any of these events, and no summary yet
InitPasses ==
    /\ InitRequests
    /\ latest = << >>
    /\ events \in SUBSET PassPool
    /\ summaries = << >>

\* compaction passes in overlapping transactions while the clock advances
NextPasses ==
    \/ TickQuarter
    \/ \E t \in Slots : PassSelect(t) \/ PassLoad(t) \/ PassCommit(t) \/ Finish(t)

SpecPasses == InitPasses /\ [][NextPasses]_vars

\* the devices that poll and the command queued for them
CommandDevices == {"dA", "dB"}

\* the ids reported on: the first two commands and one that never exists
ReportedIds == {1, 2, MaxCommands + 1}

\* the bodies of status reports: both terminal statuses, one status the
\* schema rejects, with and without an error text
ReportStatuses == REPORTABLE \cup {"PENDING"}

ReportErrors == {Null, "disk full"}

\* the steps of the command handlers in the given slots
CommandStep(slots, devices, ids, statuses, errors) ==
    \E t \in slots :
        \/ Enqueue(t, devices, {"REBOOT"})
        \/ BeginPoll(t, devices)
        \/ PollSelect(t)
        \/ PollCommit(t)
        \/ BeginReport(t, ids, statuses, errors)
        \/ ReportLoad(t)
        \/ ReportCommit(t)
        \/ Finish(t)

\* enqueues, polls and reports, one request at a time
NextCommands == CommandStep({1}, CommandDevices, ReportedIds, ReportStatuses, ReportErrors)

SpecCommands == Init /\ [][NextCommands]_vars

\* concurrent enqueues, polls and reports for one device
NextPolls == CommandStep(Slots, {"dA"}, {1}, {"COMPLETED"}, {Null})

SpecPolls == Init /\ [][NextPolls]_vars

\* the metadata of an upload
AudioMeta(recording_id, turn_number, role, codec, participant_id) ==
    [ recording_id |-> recording_id,
      session_id |-> "sA",
      device_id |-> "dA",
      participant_id |-> participant_id,
      turn_number |-> turn_number,
      role |-> role,
      codec |-> codec,
      recorded_at |-> NowInit ]

\* uploads of two turns of one session, with and without a participant, one
\* of them with a role upload_session_audio rejects
AudioMetas ==
    { AudioMeta("r1", 1, "user", "flac", Null),
      AudioMeta("r2", 1, "assistant", "flac", "p1"),
      AudioMeta("r3", 2, "user", "opus", "p1"),
      AudioMeta("r4", 2, "narrator", "flac", Null) }

\* audio uploads, one request at a time
NextAudio ==
    \E t \in {1} :
        \/ BeginAudio(t, {"audio", "session_audio"}, AudioMetas)
        \/ AudioPut(t)
        \/ AudioManifest(t)
        \/ AudioCommit(t)
        \/ Finish(t)

SpecAudio == Init /\ [][NextAudio]_vars

\* ------------------------------------------------------------------ claims

\* number of rows of table sessions with this session_id
CountSessionId(rows, session_id) ==
    BagCardinality([r \in RowsWithSessionId(rows, session_id) |-> rows[r]])

\* slot t sends the response of an ingest in this step
IngestResponds(t) == req[t].kind = "ingest" /\ pc[t] # "done" /\ pc'[t] = "done"

NoIngestInFlight(u) ==
    \A t \in Slots :
        (req[t].kind = "ingest" /\ req[t].user_external_id = u) => pc[t] = "done"

FactsOnDay(u, day) ==
    {r \in BagToSet(sessions) :
        /\ r.user_id = u
        /\ day * SecondsPerDay <= r.started_at
        /\ r.started_at < (day + 1) * SecondsPerDay}

\* the UTC day that index k of a rollup written at `at` stands for
DayOfIndex(at, k) == (at \div SecondsPerDay) - WINDOW_DAYS + k

\* the committed sessions of a user inside the window of a rollup written at `at`
FactsInWindow(u, at) == UNION {FactsOnDay(u, DayOfIndex(at, k)) : k \in 1 .. WINDOW_DAYS}

RECURSIVE SumOver(_, _)
SumOver(rows, column) ==
    IF rows = {} THEN 0
    ELSE LET r == CHOOSE q \in rows : TRUE
         IN  sessions[r] * r[column] + SumOver(rows \ {r}, column)

RECURSIVE CountRows(_)
CountRows(rows) ==
    IF rows = {} THEN 0
    ELSE LET r == CHOOSE q \in rows : TRUE IN sessions[r] + CountRows(rows \ {r})

\* m is x / y rounded half up (y > 0): m - 1/2 <= x / y < m + 1/2
IsHalfUp(m, x, y) == 2 * y * m <= 2 * x + y /\ 2 * x + y < 2 * y * (m + 1)

\* slot t holds the response of a dashboard read
ReadDone(t) == pc[t] = "done" /\ req[t].kind = "read"

C5_OnlyWindowDaysInArrays ==
    \A u \in DOMAIN rollups :
        LET R == rollups[u]
            first == DayOfIndex(R.updated_at, 1)
            Without(f) == recompute_dashboard_rollup(
                              sessions (-) SetToBag({f}), u, R.updated_at)
        IN  /\ \A k \in 1 .. WINDOW_DAYS :
                  /\ R.daily_activity[k] <=> FactsOnDay(u, DayOfIndex(R.updated_at, k)) # {}
                  /\ FactsOnDay(u, DayOfIndex(R.updated_at, k)) = {}
                        => (R.daily_durations[k] = 0 /\ R.daily_sentiment[k] = None)
            /\ \A f \in BagToSet(sessions) :
                  /\ (f.user_id = u /\ f.started_at = first * SecondsPerDay)
                        => R.daily_activity[1]
                  /\ (f.user_id = u /\ f \notin FactsInWindow(u, R.updated_at))
                        => /\ R.daily_activity = Without(f).daily_activity
                           /\ R.daily_durations = Without(f).daily_durations
                           /\ R.daily_sentiment = Without(f).daily_sentiment

\* C5 witness: a rollup whose user has a session at the first second of the
\* oldest day and another one second earlier, and only slot 1 is active
C5_Witness ==
    \E u \in DOMAIN rollups :
        LET R == rollups[u]
            start == DayOfIndex(R.updated_at, 1) * SecondsPerDay
        IN  /\ \E f \in BagToSet(sessions) : f.user_id = u /\ f.started_at = start
            /\ \E f \in BagToSet(sessions) : f.user_id = u /\ f.started_at = start - 1
            /\ R.daily_activity = [k \in 1 .. WINDOW_DAYS |-> k = 1]

\* C6: every stored rollup and every dashboard response has three arrays of
\* exactly 7 entries, and the last entry of a stored rollup stands for the UTC
\* day on which it was computed.
C6_SevenEntriesEndingAtComputationDay ==
    /\ \A u \in DOMAIN rollups :
          /\ Len(rollups[u].daily_activity) = 7
          /\ Len(rollups[u].daily_durations) = 7
          /\ Len(rollups[u].daily_sentiment) = 7
          /\ rollups[u].daily_activity[7]
                <=> FactsOnDay(u, rollups[u].updated_at \div SecondsPerDay) # {}
    /\ \A t \in Slots :
          ReadDone(t) =>
              /\ Len(resp[t].dailyActivity) = 7
              /\ Len(resp[t].dailyDurations) = 7
              /\ Len(resp[t].dailySentiment) = 7

\* C6 witness: the empty response was served to a user with no rollup while
\* another user's rollup has a session on its computation day
C6_Witness ==
    /\ \E t \in Slots :
          /\ ReadDone(t)
          /\ req[t].user_external_id \notin DOMAIN rollups
          /\ resp[t].dailyActivity = [k \in 1 .. 7 |-> FALSE]
    /\ \E u \in DOMAIN rollups : rollups[u].daily_activity[7]

\* C7: per window day, the sessions that started on that UTC day decide the
\* slot: with sessions, activity is true, the duration is the sum of their
\* seconds / 60 rounded half up and the sentiment is their mean score rounded
\* half up to a hundredth; without, activity is false, duration 0, sentiment
\* absent.  30 s is 1 minute, 90 s and 119 s are 2, 150 s is 3.
C7_DailyBuckets ==
    \A u \in DOMAIN rollups :
        \A k \in 1 .. WINDOW_DAYS :
            LET R == rollups[u]
                bucket == FactsOnDay(u, DayOfIndex(R.updated_at, k))
                seconds == SumOver(bucket, "duration_seconds")
            IN  IF bucket # {}
                THEN /\ R.daily_activity[k]
                     /\ IsHalfUp(R.daily_durations[k], seconds, 60)
                     /\ IsHalfUp(R.daily_sentiment[k],
                                 SumOver(bucket, "sentiment_score"), CountRows(bucket))
                     /\ seconds = 30 => R.daily_durations[k] = 1
                     /\ seconds \in {90, 119} => R.daily_durations[k] = 2
                     /\ seconds = 150 => R.daily_durations[k] = 3
                ELSE /\ ~R.daily_activity[k]
                     /\ R.daily_durations[k] = 0
                     /\ R.daily_sentiment[k] = None

\* C7 witness: a day with two sessions, one of them running past midnight,
\* whose seconds and whose scores both sit on a rounding tie, next to a day
\* of 90 seconds counted as 2 minutes
C7_Witness ==
    \E u \in DOMAIN rollups :
        \E k \in 1 .. WINDOW_DAYS, j \in 1 .. WINDOW_DAYS :
            LET R == rollups[u]
                bucket == FactsOnDay(u, DayOfIndex(R.updated_at, k))
            IN  /\ Cardinality(bucket) = 2
                /\ SumOver(bucket, "duration_seconds") % 60 = 30
                /\ SumOver(bucket, "sentiment_score") % 2 = 1
                /\ \E f \in bucket :
                      DateOf(f.started_at + f.duration_seconds) > DateOf(f.started_at)
                /\ SumOver(FactsOnDay(u, DayOfIndex(R.updated_at, j)), "duration_seconds") = 90
                /\ R.daily_durations[j] = 2

\* the non-zero entries of a sequence of daily durations
NonZeroDays(durations) == {k \in DOMAIN durations : durations[k] > 0}

RECURSIVE SumAt(_, _)
SumAt(durations, indexes) ==
    IF indexes = {} THEN 0
    ELSE LET k == CHOOSE i \in indexes : TRUE
         IN  durations[k] + SumAt(durations, indexes \ {k})

\* C8: avg_duration_minutes is the mean of the non-zero daily durations
\* rounded half up, and 0 when no daily duration is non-zero (so when no day
\* has activity); days of 3 and 6 minutes give 5, of 1 and 2 give 2, of 2, 2
\* and 3 give 2.
C8_AverageOfNonZeroDays ==
    \A u \in DOMAIN rollups :
        LET R == rollups[u]
            days == NonZeroDays(R.daily_durations)
            total == SumAt(R.daily_durations, days)
            Values == {R.daily_durations[k] : k \in days}
        IN  /\ IF days = {} THEN R.avg_duration_minutes = 0
               ELSE IsHalfUp(R.avg_duration_minutes, total, Cardinality(days))
            /\ (\A k \in 1 .. WINDOW_DAYS : ~R.daily_activity[k]) => R.avg_duration_minutes = 0
            /\ (Cardinality(days) = 2 /\ Values = {3, 6}) => R.avg_duration_minutes = 5
            /\ (Cardinality(days) = 2 /\ Values = {1, 2}) => R.avg_duration_minutes = 2
            /\ (Cardinality(days) = 3 /\ total = 7 /\ Values = {2, 3})
                  => R.avg_duration_minutes = 2

\* C8 witness: days of 3 and 6 minutes around an active day of 0 minutes,
\* averaged to 5
C8_Witness ==
    \E u \in DOMAIN rollups :
        LET R == rollups[u]
        IN  /\ \E i \in 1 .. 7, j \in 1 .. 7, z \in 1 .. 7 :
                  /\ R.daily_durations[i] = 3 /\ R.daily_durations[j] = 6
                  /\ R.daily_activity[z] /\ R.daily_durations[z] = 0
            /\ Cardinality(NonZeroDays(R.daily_durations)) = 2
            /\ R.avg_duration_minutes = 5

\* the indexes of a rollup's daily sentiments that are present
PresentDays(R) == {k \in 1 .. WINDOW_DAYS : R.daily_sentiment[k] # None}

\* C9: current_tone depends only on the most recent daily sentiment that is
\* present: positive from 0.61, neutral from 0.40 up to 0.60, negative below
\* 0.40; neutral when all seven are absent.
C9_ToneOfMostRecentSentiment ==
    \A u \in DOMAIN rollups :
        LET R == rollups[u]
        IN  IF PresentDays(R) = {} THEN R.current_tone = "neutral"
            ELSE LET last == CHOOSE k \in PresentDays(R) : \A j \in PresentDays(R) : j <= k
                     v == R.daily_sentiment[last]
                 IN  /\ R.current_tone = "positive" <=> v >= 61
                     /\ R.current_tone = "neutral" <=> (40 <= v /\ v < 61)
                     /\ R.current_tone = "negative" <=> v < 40

\* C9 witness: the most recent present sentiment is exactly 0.61, computed as
\* the mean of two sessions, with today's entry absent and an older day below
\* 0.40
C9_Witness ==
    \E u \in DOMAIN rollups :
        LET R == rollups[u]
        IN  /\ R.daily_sentiment[7] = None
            /\ \E k \in 1 .. 6 :
                  /\ R.daily_sentiment[k] = 61
                  /\ \A j \in (k + 1) .. 7 : R.daily_sentiment[j] = None
                  /\ Cardinality(FactsOnDay(u, DayOfIndex(R.updated_at, k))) = 2
                  /\ \E i \in 1 .. (k - 1) :
                        R.daily_sentiment[i] # None /\ R.daily_sentiment[i] < 40
            /\ R.current_tone = "positive"

\* C10: last_session_at is the latest end (start + duration) of the user's
\* sessions in the window, and absent when the window holds none.
C10_LastSessionIsLatestEnd ==
    \A u \in DOMAIN rollups :
        LET R == rollups[u]
            ends == {f.started_at + f.duration_seconds : f \in FactsInWindow(u, R.updated_at)}
        IN  IF ends = {} THEN R.last_session_at = None
            ELSE /\ R.last_session_at \in ends
                 /\ \A e \in ends : e <= R.last_session_at

\* C10 witness: of two sessions in the window, the one that started first
\* ends last, and a third fact outside the window ends later still
C10_Witness ==
    \E u \in DOMAIN rollups :
        LET R == rollups[u]
        IN  \E f \in FactsInWindow(u, R.updated_at), g \in FactsInWindow(u, R.updated_at) :
                /\ f.started_at < g.started_at
                /\ f.started_at + f.duration_seconds > g.started_at + g.duration_seconds
                /\ R.last_session_at = f.started_at + f.duration_seconds

\* the activity array stored for a user, or the empty one of a user without rollup
StoredActivity(u) ==
    IF u \in DOMAIN rollups THEN rollups[u].daily_activity
    ELSE [k \in 1 .. WINDOW_DAYS |-> FALSE]

\* n is the length of the run of true entries at the end of the array
IsTrailingRun(n, activity) ==
    /\ n \in 0 .. Len(activity)
    /\ \A k \in (Len(activity) - n + 1) .. Len(activity) : activity[k]
    /\ n < Len(activity) => ~activity[Len(activity) - n]

\* C11: the streak a dashboard read returns is the number of consecutive
\* true entries of the stored activity array, counted from index 7 backward
\* to the first false entry or the start of the array ([F,F,T] gives 1,
\* [T,F,T,T] gives 2, all false gives 0, all true the length); the stored
\* rollup row has no streak column.
C11_StreakIsTrailingRun ==
    /\ \A t \in Slots :
          ReadDone(t) =>
              /\ resp[t].dailyActivity = StoredActivity(req[t].user_external_id)
              /\ IsTrailingRun(resp[t].streakDays, StoredActivity(req[t].user_external_id))
    /\ \A u \in DOMAIN rollups :
          DOMAIN rollups[u] = RollupColumns \cup {"user_id"}
    /\ calculate_streak_days(<<FALSE, FALSE, TRUE>>) = 1
    /\ calculate_streak_days(<<TRUE, TRUE, TRUE>>) = 3
    /\ calculate_streak_days(<<TRUE, FALSE, TRUE, TRUE>>) = 2
    /\ calculate_streak_days(<<FALSE, FALSE, FALSE>>) = 0

\* C11 witness: a read served a stored array that is active today and two
\* days ago but not yesterday, with a streak of 1
C11_Witness ==
    \E t \in Slots :
        /\ ReadDone(t)
        /\ req[t].user_external_id \in DOMAIN rollups
        /\ resp[t].dailyActivity[7] /\ ~resp[t].dailyActivity[6] /\ resp[t].dailyActivity[5]
        /\ resp[t].streakDays = 1

\* two rollup rows agree on every column but updated_at
SameButUpdatedAt(a, b) ==
    /\ DOMAIN a = DOMAIN b
    /\ \A c \in DOMAIN a \ {"updated_at"} : a[c] = b[c]

\* C12 as stated: a second recompute over the same committed sessions, at
\* whatever later time, gives the arrays and scalars of the stored rollup.
C12_RecomputeIdempotentAtAnyTime ==
    \A u \in DOMAIN rollups :
        NoIngestInFlight(u) =>
            SameButUpdatedAt(rollups[u], recompute_dashboard_rollup(sessions, u, now))

\* C12 (amended): a second recompute over the same committed sessions on the
\* UTC day of the first gives the same activity, durations and sentiment
\* arrays and the same last_session_at, avg_duration_minutes and
\* current_tone as the stored rollup; only updated_at may differ.
C12_RecomputeIdempotentWithinDay ==
    \A u \in DOMAIN rollups :
        (/\ NoIngestInFlight(u)
         /\ now \div SecondsPerDay = rollups[u].updated_at \div SecondsPerDay)
            => SameButUpdatedAt(rollups[u], recompute_dashboard_rollup(sessions, u, now))

\* C12 witness: a rollup with an active day, written earlier on the present
\* UTC day, whose recompute now would carry a later updated_at
C12_Witness ==
    \E u \in DOMAIN rollups :
        /\ NoIngestInFlight(u)
        /\ rollups[u].updated_at < now
        /\ now \div SecondsPerDay = rollups[u].updated_at \div SecondsPerDay
        /\ \E k \in 1 .. WINDOW_DAYS : rollups[u].daily_activity[k]
        /\ recompute_dashboard_rollup(sessions, u, now).updated_at # rollups[u].updated_at

\* a dashboard response of a user without activity
IsEmptyRollupResponse(r) ==
    /\ r.dailyActivity = [k \in 1 .. WINDOW_DAYS |-> FALSE]
    /\ r.dailyDurations = [k \in 1 .. WINDOW_DAYS |-> 0]
    /\ r.dailySentiment = [k \in 1 .. WINDOW_DAYS |-> None]
    /\ r.toneCurrent = "neutral"
    /\ r.streakDays = 0
    /\ r.lastSession = None
    /\ r.avgMinutes = 0

\* slot t runs the user lookup of a dashboard read in this step
ReadResolvesUser(t) == pc[t] = "read_user" /\ pc'[t] = "read_rollup"

\* C13: the user lookup of a dashboard read leaves exactly one committed
\* User row of its external id: it adds the row when there was none and adds
\* nothing when there was one, and touches no other user; a read of a user
\* without rollup answers the empty rollup (all false, all 0, all absent,
\* neutral, streak 0, no last session, average 0), however many reads came
\* before it.
C13_UnknownUserReadCreatesOneRow ==
    /\ [](\A u \in UserIds : CopiesIn(u, users) <= 1)
    /\ [](\A t \in Slots :
            (ReadDone(t) /\ req[t].user_external_id \notin DOMAIN rollups)
                => IsEmptyRollupResponse(resp[t]))
    /\ [][\A t \in Slots :
            ReadResolvesUser(t) =>
                LET u == req[t].user_external_id
                IN  /\ CopiesIn(u, users') = 1
                    /\ CopiesIn(u, users) = 1 => users' = users
                    /\ \A o \in UserIds \ {u} : CopiesIn(o, users') = CopiesIn(o, users)
       ]_vars

\* C13 witness: two reads of one unknown user have both been answered with
\* the empty rollup and one User row exists
C13_Witness ==
    \E t \in Slots, o \in Slots :
        /\ t # o
        /\ ReadDone(t) /\ ReadDone(o)
        /\ req[t].user_external_id = req[o].user_external_id
        /\ req[t].user_external_id \notin DOMAIN rollups
        /\ sessions = EmptyBag
        /\ CopiesIn(req[t].user_external_id, users) = 1
        /\ IsEmptyRollupResponse(resp[t]) /\ IsEmptyRollupResponse(resp[o])

\* rows of table users with this external id, committed or written by an
\* open transaction
UserRowsAnywhere(u) ==
    CopiesIn(u, users) + Cardinality({t \in Slots : u \in tx[t].users})

\* slot t runs the get-or-create of an ingest or of a dashboard read in this step
ResolvesUser(t) ==
    \/ pc[t] = "ingest_user" /\ pc'[t] # "ingest_user"
    \/ pc[t] = "read_user" /\ pc'[t] # "read_user"

IngestSteps(t) == req[t].kind = "ingest" /\ pc'[t] # pc[t]

\* C15: an ingest changes the committed store in one step only, the commit
\* that answers ok or duplicate; when a statement or the commit fails, at
\* whatever step, the caller gets the error, the step leaves users, sessions
\* and rollups as they were and drops every pending write of the request, so
\* nothing of the failed ingest is visible afterwards; and no committed
\* state holds a session without its user and its user's rollup.
C15_FailedIngestLeavesNoTrace ==
    /\ [][\A t \in Slots :
            IngestSteps(t) =>
                IF pc'[t] = "done" /\ resp'[t].status \in {"ok", "duplicate"}
                THEN tx'[t] = EmptyTx
                ELSE /\ users' = users /\ sessions' = sessions /\ rollups' = rollups
                     /\ pc'[t] = "done" =>
                            (resp'[t].status = "error" /\ tx'[t] = EmptyTx)
       ]_vars
    /\ [](\A r \in BagToSet(sessions) :
            CopiesIn(r.user_id, users) = 1 /\ r.user_id \in DOMAIN rollups)

\* C15 witness: the commit of an ingest that had inserted the user, the
\* session and the rollup failed, and the committed store is still empty
C15_Witness ==
    \E t \in Slots :
        /\ pc[t] = "done" /\ req[t].kind = "ingest"
        /\ resp[t] = [status |-> "error", step |-> "commit"]
        /\ tx[t] = EmptyTx
        /\ users = EmptyBag /\ sessions = EmptyBag /\ rollups = << >>

\* slot t answers a heartbeat request in this step
HeartbeatAnswers(t) == pc[t] = "heartbeat" /\ pc'[t] = "done"

\* C16: every heartbeat request is recorded: when it is answered, the one
\* latest row of its device has the request's agent version, connectivity,
\* signal, latency, agent status, last-session and boot time with
\* server_received_at the request's now, and exactly one raw event of the
\* device, timestamped with the same now, has been appended.
C16_LatestRowIsLastHeartbeat ==
    [][\A t \in Slots :
          HeartbeatAnswers(t) =>
              LET hb == req[t].heartbeat
                  d == hb.device_id
              IN  /\ resp'[t].status = "ok"
                  /\ d \in DOMAIN latest'
                  /\ latest'[d].agent_version = hb.agent_version
                  /\ latest'[d].connectivity = hb.connectivity
                  /\ latest'[d].signal_rssi = hb.network.signal_rssi
                  /\ latest'[d].latency_ms = hb.network.latency_ms
                  /\ latest'[d].agent_status = hb.agent_status
                  /\ latest'[d].last_session_at = hb.last_session_at
                  /\ "boot_time" \in DOMAIN hb /\ latest'[d].boot_time = hb.boot_time
                  /\ latest'[d].server_received_at = now
                  /\ Cardinality({e \in events' \ events :
                                     e.device_id = d /\ e.server_received_at = now}) = 1
      ]_vars

ListDone(t) == pc[t] = "done" /\ req[t].kind = "list"

\* the classification of the listing: every device has one status; it is
\* dead exactly when its row is older than asOf - 20 minutes, whatever its
\* latency and agent status; if not dead it is healthy exactly when its agent
\* status is ok and its latency is known and below 500, otherwise degraded
ListClassifiesEveryDevice ==
    \A t \in Slots :
        ListDone(t) =>
            /\ DOMAIN resp[t].devices = DOMAIN latest
            /\ \A d \in DOMAIN latest :
                  LET s == resp[t].devices[d]
                      old == latest[d].server_received_at < resp[t].asOf - 20 * 60
                      fine == /\ latest[d].agent_status = "ok"
                              /\ latest[d].latency_ms # None
                              /\ latest[d].latency_ms < 500
                  IN  /\ s.status \in {"dead", "healthy", "degraded"}
                      /\ s.status = "dead" <=> old
                      /\ s.status = "healthy" <=> (~old /\ fine)
                      /\ s.status = "degraded" <=> (~old /\ ~fine)

\* a listing shows a device that was live turned dead by the clock alone, with
\* a latency of 499 ms and agent status ok
ListShowsDeviceGoneStale ==
    \E t \in Slots :
        /\ ListDone(t)
        /\ resp[t].devices["d1"].status = "dead"
        /\ resp[t].devices["d1"].latencyMs = 499
        /\ latest["d1"].agent_status = "ok"
        /\ latest["d1"].server_received_at = NowInit

\* C18: the listing classifies as above, and a device stops being dead with
\* its next heartbeat: once the heartbeat is answered the device's row is
\* not older than the stale threshold.
C18_StatusByAgeStatusLatency ==
    /\ []ListClassifiesEveryDevice
    /\ [][\A t \in Slots :
            HeartbeatAnswers(t) =>
                LET d == req[t].heartbeat.device_id
                IN  /\ d \in DOMAIN latest'
                    /\ compute_status(latest'[d], now - STALE_MINUTES * SecondsPerMinute)
                          # "dead"
       ]_vars

\* slot t runs a compaction and cleanup pass in this step
PassRuns(t) == pc[t] = "idle" /\ pc'[t] = "done" /\ req'[t].kind = "cleanup"

\* the heartbeat counts of all summaries, added up
RECURSIVE TotalCount(_, _)
TotalCount(sums, keys) ==
    IF keys = {} THEN 0
    ELSE LET key == CHOOSE k \in keys : TRUE
         IN  sums[key].heartbeat_count + TotalCount(sums, keys \ {key})

\* m is x / y truncated (x >= 0, y > 0)
IsTruncated(m, x, y) == y * m <= x /\ x < y * (m + 1)

\* C19: a compaction pass at time now removes exactly the raw events received
\* before now - 2 hours and returns their number; every one of them is
\* counted in a summary; the events received at or after the cutoff stay as
\* they are; a second pass at the same time returns 0 and changes nothing.
C19_CompactionTakesExactlyOldEvents ==
    [][\A t \in Slots :
          PassRuns(t) =>
              LET cutoff == now - 2 * 3600
                  selected == {e \in events : e.server_received_at < cutoff}
                  again == compact_heartbeat_events(events', summaries', now)
              IN  /\ events' = events \ selected
                  /\ \A e \in events : e.server_received_at >= cutoff => e \in events'
                  /\ resp'[t].compacted = Cardinality(selected)
                  /\ TotalCount(summaries', DOMAIN summaries')
                        = TotalCount(summaries, DOMAIN summaries) + Cardinality(selected)
                  /\ again.count = 0
                  /\ again.events = events'
                  /\ again.summaries = summaries'
      ]_vars

\* C19 witness: a pass took several events and left the one received exactly
\* at its cutoff
C19_Witness ==
    \E t \in Slots :
        /\ pc[t] = "done" /\ req[t].kind = "cleanup"
        /\ resp[t].compacted >= 2
        /\ \E e \in events : e.server_received_at = now - 2 * 3600
        /\ summaries # << >>

\* C20: when a pass merges a batch with latency samples into a summary that
\* has an average, the new average is (old_avg * old_count + batch_avg *
\* batch_count) / (old_count + batch_count) truncated, old_count being the
\* summary's heartbeat count before the pass and batch_avg the truncated mean
\* of the batch's samples, and heartbeat_count becomes old_count +
\* batch_count; 100 over 10 merged with 5 events averaging 200 gives 133.
C20_MergedAverageWeightsOldCount ==
    [][\A t \in Slots :
          PassRuns(t) =>
              \A key \in DOMAIN summaries :
                  LET batch == {e \in events :
                                   /\ e.device_id = key[1]
                                   /\ e.server_received_at < now - 2 * 3600
                                   /\ key[2] <= e.server_received_at
                                   /\ e.server_received_at < key[2] + 3600}
                      sampled == {e \in batch : EventLatency(e) # None}
                      old == summaries[key]
                      new == summaries'[key]
                      batch_count == Cardinality(batch)
                  IN  (sampled # {} /\ old.avg_latency_ms # None) =>
                          LET batch_avg == SumLatency(sampled) \div Cardinality(sampled)
                              total == old.avg_latency_ms * old.heartbeat_count
                                          + batch_avg * batch_count
                          IN  /\ new.heartbeat_count = old.heartbeat_count + batch_count
                              /\ IsTruncated(new.avg_latency_ms, total,
                                             old.heartbeat_count + batch_count)
                              /\ (/\ old.avg_latency_ms = 100 /\ old.heartbeat_count = 10
                                  /\ batch_avg = 200 /\ batch_count = 5)
                                    => new.avg_latency_ms = 133
      ]_vars

\* C20 witness: the summary of 10 heartbeats averaging 100 has been merged
\* with five events averaging 200 into 15 heartbeats averaging 133
C20_Witness ==
    \E t \in Slots :
        /\ pc[t] = "done" /\ req[t].kind = "cleanup"
        /\ resp[t].compacted = 5
        /\ <<"d1", Hour0>> \in DOMAIN summaries
        /\ summaries[<<"d1", Hour0>>].heartbeat_count = 15
        /\ summaries[<<"d1", Hour0>>].avg_latency_ms = 133

\* the events of old_events that a pass at time at puts in the bucket of key
BatchOf(evts, key, at) ==
    {e \in evts :
        /\ e.device_id = key[1]
        /\ e.server_received_at < at - 2 * 3600
        /\ key[2] <= e.server_received_at
        /\ e.server_received_at < key[2] + 3600}

\* the latency samples of a batch
BatchLatencies(batch) == {EventLatency(e) : e \in {x \in batch : EventLatency(x) # None}}

\* C21: when a pass merges a batch into an existing hourly summary, a
\* min_latency_ms that was set does not increase and a max_latency_ms that
\* was set does not decrease, and afterwards min_latency_ms <= every latency
\* of the batch <= max_latency_ms, for all latencies including 0.
C21_MinMaxWidenMonotonically ==
    [][\A t \in Slots :
          PassRuns(t) =>
              \A key \in DOMAIN summaries :
                  LET batch == BatchOf(events, key, now)
                      old == summaries[key]
                      new == summaries'[key]
                  IN  batch # {} =>
                          /\ old.min_latency_ms # None =>
                                 /\ new.min_latency_ms # None
                                 /\ new.min_latency_ms <= old.min_latency_ms
                          /\ old.max_latency_ms # None =>
                                 /\ new.max_latency_ms # None
                                 /\ new.max_latency_ms >= old.max_latency_ms
                          /\ \A l \in BatchLatencies(batch) :
                                 new.min_latency_ms <= l /\ l <= new.max_latency_ms
      ]_vars

\* the number of events of a batch whose payload reports agent_status "ok"
OkEvents(batch) == Cardinality({e \in batch : e.raw_payload.agent_status = "ok"})

\* C22: a pass adds to a summary's ok counter the number of batch events with
\* agent_status "ok" and to its non-ok counter the number of all other batch
\* events, on insert (counting from 0) and on merge; in every reachable state
\* each summary has agent_status_ok_count + agent_status_degraded_count =
\* heartbeat_count.
C22_StatusCountersAddUp ==
    /\ [](\A key \in DOMAIN summaries :
             summaries[key].agent_status_ok_count
                 + summaries[key].agent_status_degraded_count
               = summaries[key].heartbeat_count)
    /\ [][\A t \in Slots :
             PassRuns(t) =>
                 \A key \in DOMAIN summaries' :
                     LET batch == BatchOf(events, key, now)
                         stored == key \in DOMAIN summaries
                         old_ok == IF stored THEN summaries[key].agent_status_ok_count ELSE 0
                         old_degraded ==
                             IF stored THEN summaries[key].agent_status_degraded_count ELSE 0
                         new == summaries'[key]
                     IN  /\ new.agent_status_ok_count = old_ok + OkEvents(batch)
                         /\ new.agent_status_degraded_count
                               = old_degraded + Cardinality(batch) - OkEvents(batch)
         ]_vars

\* C22 witness: a pass has merged three events, one of them crashed, into the
\* summary that an earlier pass inserted for one ok and one degraded event
C22_Witness ==
    \E t \in Slots :
        /\ pc[t] = "done" /\ req[t].kind = "cleanup"
        /\ resp[t].compacted = 3
        /\ <<"d1", Hour1>> \in DOMAIN summaries
        /\ summaries[<<"d1", Hour1>>].heartbeat_count = 5
        /\ summaries[<<"d1", Hour1>>].agent_status_ok_count = 3
        /\ summaries[<<"d1", Hour1>>].agent_status_degraded_count = 2

\* slot t runs cleanup on its own in this step
CleanupRuns(t) == pc[t] = "idle" /\ pc'[t] = "done" /\ req'[t].kind = "retention"

\* C23: cleanup(retentionDays) at time now deletes exactly the raw events
\* received before now - retentionDays days, compacted or not, returns their
\* number, and leaves the hourly summaries and the latest rows as they are.
C23_CleanupDeletesExactlyExpiredEvents ==
    [][\A t \in Slots :
          CleanupRuns(t) =>
              LET cutoff == now - req'[t].retention_days * 86400
                  expired == {e \in events : e.server_received_at < cutoff}
              IN  /\ events' = events \ expired
                  /\ resp'[t].deleted = Cardinality(expired)
                  /\ summaries' = summaries
                  /\ latest' = latest
      ]_vars

\* C23 witness: a cleanup with the default retention has deleted an event
\* that no pass had compacted and has left the event received exactly at its
\* cutoff
C23_Witness ==
    \E t \in Slots :
        /\ pc[t] = "done" /\ req[t].kind = "retention"
        /\ req[t].retention_days = 7
        /\ resp[t].deleted >= 1
        /\ summaries = << >>
        /\ \E e \in events : e.server_received_at = now - 7 * 86400

\* slot t answers a listing in this step
ListRuns(t) == pc[t] = "idle" /\ pc'[t] = "done" /\ req'[t].kind = "list"

\* C24: a compaction pass and a cleanup leave every latest-heartbeat row as
\* it is, and so the statuses a listing would give; a listing answers with
\* the statuses computed from the latest rows and the clock alone, the same
\* whether passes have run or not.
C24_CompactionNeverAffectsListing ==
    [][\A t \in Slots :
          /\ (PassRuns(t) \/ CleanupRuns(t)) =>
                 /\ latest' = latest
                 /\ list_heartbeat_statuses(latest', now')
                       = list_heartbeat_statuses(latest, now)
          /\ ListRuns(t) =>
                 /\ resp'[t].devices = list_heartbeat_statuses(RetentionLatest, now)
                 /\ DOMAIN resp'[t].devices = {"d1", "d2"}
      ]_vars

\* C24 witness: a listing has been answered after a pass compacted events
\* into a summary, and it shows both devices
C24_Witness ==
    \E t \in Slots :
        /\ pc[t] = "done" /\ req[t].kind = "list"
        /\ summaries # << >>
        /\ DOMAIN resp[t].devices = {"d1", "d2"}

\* slot t commits a poll for a device in this step
PollReturns(t) == pc[t] = "poll_commit" /\ pc'[t] = "done"

\* the PENDING commands of a device
PendingOf(rows, device_id) ==
    {id \in DOMAIN rows : rows[id].device_id = device_id /\ rows[id].status = "PENDING"}

\* C25: with one request at a time, a poll for a device returns nothing
\* exactly when the device has no PENDING command; otherwise it returns the
\* one PENDING command of that device with the oldest created_at and turns it
\* PICKED_UP; every other command, of this and of any other device, stays as
\* it is.
C25_PollsReturnPendingOldestFirst ==
    [][\A t \in Slots :
          PollReturns(t) =>
              LET pending == PendingOf(commands, req[t].device_id)
                  returned == {c.id : c \in resp'[t].command}
              IN  /\ (returned = {}) <=> (pending = {})
                  /\ Cardinality(returned) <= 1
                  /\ \A id \in returned :
                        /\ id \in pending
                        /\ \A o \in pending : commands[id].created_at <= commands[o].created_at
                        /\ commands'[id] = [commands[id] EXCEPT !.status = "PICKED_UP"]
                  /\ \A id \in DOMAIN commands \ returned : commands'[id] = commands[id]
      ]_vars

\* C25 witness: the second poll of a device has returned its second command
\* after the first was picked up, while a command of the other device is
\* still PENDING
C25_Witness ==
    \E t \in Slots :
        /\ pc[t] = "done" /\ req[t].kind = "poll"
        /\ DOMAIN commands = {1, 2, 3}
        /\ {c.id : c \in resp[t].command} = {2}
        /\ commands[1].device_id = req[t].device_id
        /\ commands[2].device_id = req[t].device_id
        /\ commands[1].status = "PICKED_UP"
        /\ commands[2].status = "PICKED_UP"
        /\ commands[3].device_id # req[t].device_id
        /\ commands[3].status = "PENDING"

\* C26: under concurrent polls and reports, a poll returns only a command
\* that is PENDING until this very commit, no two open polls hold the same
\* command, and a command that has left PENDING never is PENDING again: no
\* command is returned by two polls.
C26_CommandClaimedAtMostOnce ==
    /\ [](\A t \in Slots : \A o \in Slots \ {t} : cmdtx[t].locked \cap cmdtx[o].locked = {})
    /\ [][/\ \A t \in Slots :
                PollReturns(t) =>
                    \A c \in resp'[t].command :
                        /\ commands[c.id].status = "PENDING"
                        /\ commands'[c.id].status = "PICKED_UP"
            /\ \A id \in DOMAIN commands :
                  commands[id].status # "PENDING" => commands'[id].status # "PENDING"
         ]_vars

\* C26 witness: a poll holds the second command after it waited for another
\* poll that took the first one, which its own statement had seen PENDING
C26_Witness ==
    \E t \in Slots :
        /\ pc[t] = "poll_commit"
        /\ 1 \in cmdtx[t].snapshot
        /\ cmdtx[t].locked = {2}
        /\ commands[1].status = "PICKED_UP"
        /\ \E o \in Slots \ {t} :
              /\ pc[o] = "done" /\ req[o].kind = "poll"
              /\ {c.id : c \in resp[o].command} = {1}

\* C27: once a command is COMPLETED or FAILED, no step of any enqueue, poll
\* or status report changes its status or its error message.
C27_TerminalStatesAreFinal ==
    [][\A id \in DOMAIN commands :
          commands[id].status \in {"COMPLETED", "FAILED"} =>
              /\ commands'[id].status = commands[id].status
              /\ commands'[id].error_message = commands[id].error_message
      ]_vars

\* C28: a command is created PENDING; its status changes only from PENDING
\* to PICKED_UP, by the commit of a poll, and from PICKED_UP to COMPLETED or
\* FAILED; a status report on a PENDING command does not make it terminal.
C28_StatusFollowsStateMachine ==
    [][/\ \A id \in DOMAIN commands' \ DOMAIN commands : commands'[id].status = "PENDING"
       /\ \A id \in DOMAIN commands :
             commands'[id].status # commands[id].status =>
                 \/ /\ commands[id].status = "PENDING"
                    /\ commands'[id].status = "PICKED_UP"
                    /\ \E t \in Slots : PollReturns(t)
                 \/ /\ commands[id].status = "PICKED_UP"
                    /\ commands'[id].status \in {"COMPLETED", "FAILED"}
      ]_vars

\* slot t looks up the command of a status report in this step
ReportLooksUp(t) == pc[t] = "report_load" /\ pc'[t] # "report_load"

\* C29: a status report that passed validation and names a command id that
\* does not exist ends with 404, which is not the 422 of a rejected body, and
\* leaves every stored command as it is.
C29_UnknownCommandIsNotFound ==
    [][\A t \in Slots :
          (ReportLooksUp(t) /\ req[t].command_id \notin DOMAIN commands) =>
              /\ pc'[t] = "done"
              /\ resp'[t].status = "404"
              /\ resp'[t].status # "422"
              /\ commands' = commands
      ]_vars

\* C29 witness: with commands stored, a report on an unknown id was answered
\* 404
C29_Witness ==
    \E t \in Slots :
        /\ pc[t] = "done" /\ req[t].kind = "report"
        /\ req[t].command_id \notin DOMAIN commands
        /\ req[t].status \in {"COMPLETED", "FAILED"}
        /\ resp[t].status = "404"
        /\ commands # << >>

\* the relational tables
relational_store == <<users, sessions, rollups, latest, events, summaries, commands, recordings>>

\* C30: in both upload operations a row enters audio_recordings only in the
\* commit step of a request whose put of the audio blob has returned, with
\* the blob stored under the row's key; a request reaches that step only
\* through a put that returned; when the put raises, the request ends with
\* the error and every relational table is as before.
C30_MetadataOnlyAfterBlobStored ==
    [][\A t \in Slots :
          /\ (pc'[t] \in {"audio_manifest", "audio_commit"} /\ pc'[t] # pc[t]) =>
                 /\ pc[t] \in {"audio_put", "audio_manifest"}
                 /\ AudioKey(req[t].endpoint, req[t].meta) \in blobs'
          /\ (pc[t] = "idle" /\ req'[t].kind = "upload") => pc'[t] \in {"audio_put", "done"}
          /\ (recordings' # recordings /\ pc'[t] # pc[t]) =>
                 /\ pc[t] = "audio_commit"
                 /\ AudioKey(req[t].endpoint, req[t].meta) \in blobs
                 /\ recordings' = recordings
                                     \cup {AudioRecordingRow(req[t].endpoint, req[t].meta)}
          /\ (pc[t] = "audio_put" /\ pc'[t] = "done") =>
                 /\ resp'[t].status = "error"
                 /\ relational_store' = relational_store
      ]_vars

\* C30 witness: after one upload was stored, the put of an upload to the
\* session endpoint has raised and its row is not there
C30_Witness ==
    \E t \in Slots :
        /\ pc[t] = "done" /\ req[t].kind = "upload"
        /\ req[t].endpoint = "session_audio"
        /\ resp[t].status = "error" /\ resp[t].step = "audio_put"
        /\ recordings # {}
        /\ \A r \in recordings : r.id # req[t].meta.recording_id

\* C31: in upload_session_audio, once the audio blob is stored, no failure
\* of the bookkeeping (reading or writing the manifest, updating the
\* participant index) ends the request: it always goes on to commit the
\* AudioRecording row.
C31_BookkeepingNeverFailsUpload ==
    [][\A t \in Slots :
          (pc[t] = "audio_manifest" /\ pc'[t] # "audio_manifest") =>
              /\ pc'[t] = "audio_commit"
              /\ resp'[t] = resp[t]
      ]_vars

\* slot t commits a request that was answered duplicate
DuplicateCommits(t) == pc[t] = "commit_duplicate" /\ pc'[t] = "done"

ReadSteps(t) == pc[t] \in {"read_user", "read_rollup"} /\ pc'[t] # pc[t]

\* slot t answers a dashboard read in this step
ReadAnswers(t) == pc[t] = "read_rollup" /\ pc'[t] = "done"

\* C33: no step of a dashboard read changes a row of sessions or of
\* dashboard_rollups (none is created for a user without one), and the
\* arrays, average minutes, tone and last session of the answer are the
\* values of the stored rollup.
C33_ReadServesStoredRollup ==
    [][\A t \in Slots :
          /\ ReadSteps(t) => sessions' = sessions /\ rollups' = rollups
          /\ (ReadAnswers(t) /\ req[t].user_external_id \in DOMAIN rollups) =>
                 LET stored == rollups[req[t].user_external_id]
                 IN  /\ resp'[t].dailyActivity = stored.daily_activity
                     /\ resp'[t].dailyDurations = stored.daily_durations
                     /\ resp'[t].dailySentiment = stored.daily_sentiment
                     /\ resp'[t].avgMinutes = stored.avg_duration_minutes
                     /\ resp'[t].toneCurrent = stored.current_tone
                     /\ resp'[t].lastSession = stored.last_session_at
      ]_vars

\* C33 witness: a read was answered from a stored rollup that a recompute at
\* the time of the read would have replaced by other arrays, while a user
\* is stored who still has no rollup
C33_Witness ==
    \E t \in Slots :
        /\ ReadDone(t)
        /\ req[t].user_external_id \in DOMAIN rollups
        /\ resp[t].lastUpdated = now
        /\ resp[t].dailyActivity = rollups[req[t].user_external_id].daily_activity
        /\ recompute_dashboard_rollup(sessions, req[t].user_external_id, now).daily_activity
              # rollups[req[t].user_external_id].daily_activity
        /\ \E u \in DOMAIN users : u \notin DOMAIN rollups

\* the rows of sessions and dashboard_rollups that belong to user u
UserRows(ses, rol, u) ==
    << [row \in {r \in BagToSet(ses) : r.user_id = u} |-> CopiesIn(row, ses)],
       IF u \in DOMAIN rol THEN {rol[u]} ELSE {} >>

\* the rows of the three heartbeat tables that belong to device d
DeviceRows(lat, evts, sums, d) ==
    << IF d \in DOMAIN lat THEN {lat[d]} ELSE {},
       {e \in evts : e.device_id = d},
       {sums[key] : key \in {k \in DOMAIN sums : k[1] = d}} >>

\* the devices that have a row in a heartbeat table or send a heartbeat
EntityDevices == {"d1", "d2", "d3"}

\* the devices whose rows change in this step
DevicesTouched ==
    {d \in EntityDevices :
        DeviceRows(latest', events', summaries', d) # DeviceRows(latest, events, summaries, d)}

\* no step of a session ingest changes a session or rollup of another user,
\* and the answer of a heartbeat request changes no row of another device
OwnRowsOnly(t) ==
    /\ (req[t].kind = "ingest" /\ pc'[t] # pc[t]) =>
           \A u \in UserIds \ {req[t].user_external_id} :
               UserRows(sessions', rollups', u) = UserRows(sessions, rollups, u)
    /\ HeartbeatAnswers(t) =>
           DevicesTouched \subseteq {req[t].heartbeat.device_id}

Accounted(evts, sums, d) ==
    Cardinality({e \in evts : e.device_id = d})
        + TotalCount(sums, {key \in DOMAIN sums : key[1] = d})

\* the heartbeat request of slot t records a heartbeat of device d in this step
Records(t, d) ==
    HeartbeatAnswers(t) /\ resp'[t].status = "ok" /\ req[t].heartbeat.device_id = d

\* every summary counts exactly the events folded into it, all of them of
\* its device and hour and none of them still stored
SummariesCountFoldedEvents ==
    \A key \in DOMAIN summaries :
        /\ key \in DOMAIN folded
        /\ summaries[key].heartbeat_count = Cardinality(folded[key])
        /\ \A e \in folded[key] :
              /\ e.device_id = key[1]
              /\ HourBucket(e.server_received_at) = key[2]
              /\ e \notin events

C36_ModeIsPluralityOfAllFolded ==
    \A key \in DOMAIN summaries :
        summaries[key].connectivity_mode = ConnectivityMode(folded[key])

\* C37: in every summary the three latency columns are all present or all
\* absent, and when present min_latency_ms <= avg_latency_ms <= max_latency_ms.
C37_LatencyColumnsAreOrdered ==
    \A key \in DOMAIN summaries :
        LET s == summaries[key]
        IN  IF s.avg_latency_ms = None
            THEN s.min_latency_ms = None /\ s.max_latency_ms = None
            ELSE /\ s.min_latency_ms # None
                 /\ s.max_latency_ms # None
                 /\ s.min_latency_ms <= s.avg_latency_ms
                 /\ s.avg_latency_ms <= s.max_latency_ms

\* C38: when compaction passes run in overlapping transactions, every
\* summary still counts each raw event folded into its bucket once
\* (heartbeat_count and the ok and non-ok counters), and no pass fails.
C38_OverlappingPassesFoldOnce ==
    /\ \A key \in DOMAIN summaries :
          /\ summaries[key].heartbeat_count = Cardinality(folded[key])
          /\ summaries[key].agent_status_ok_count = OkEvents(folded[key])
          /\ summaries[key].agent_status_degraded_count =
                 Cardinality(folded[key]) - OkEvents(folded[key])
    /\ \A t \in Slots :
          (pc[t] = "done" /\ req[t].kind = "pass") => resp[t].status = "ok"

\* the SELECT of the poll in slot t returns in this step
PollSelects(t) == pc[t] = "poll_select" /\ pc'[t] = "poll_commit"

\* a poll that gets a command gets the oldest PENDING command of its device,
\* one that no other open poll holds: two concurrent polls of a device with
\* two PENDING commands get the two oldest, one each
PollGetsOldestPending(t) ==
    \A id \in cmdtx'[t].locked :
        /\ id \in PendingOf(commands, req[t].device_id)
        /\ \A o \in PendingOf(commands, req[t].device_id) :
              commands[id].created_at <= commands[o].created_at
        /\ \A o \in Slots \ {t} : id \notin cmdtx[o].locked

\* C39 (as stated): under concurrent polls of a device, a poll that gets a
\* command gets the oldest PENDING one, distinct from what another poll
\* holds, and a poll gets nothing only if the device has no PENDING command
\* at the time it selects (when its SELECT starts or when it returns).
C39_EmptyPollMeansNothingPending ==
    [][\A t \in Slots :
          PollSelects(t) =>
              /\ PollGetsOldestPending(t)
              /\ cmdtx'[t].locked = {} =>
                    \/ cmdtx[t].snapshot = {}
                    \/ PendingOf(commands, req[t].device_id) = {}
      ]_vars

\* C39 (amended): under concurrent polls of a device, a poll that gets a
\* command gets the oldest PENDING one, distinct from what another poll
\* holds, and a poll gets nothing exactly when none of the commands that
\* were PENDING when its SELECT started is still PENDING when it returns; a
\* command enqueued meanwhile is left for a later poll.
C39_EmptyPollMeansSnapshotExhausted ==
    [][\A t \in Slots :
          PollSelects(t) =>
              /\ PollGetsOldestPending(t)
              /\ cmdtx'[t].locked = {} <=>
                    cmdtx[t].snapshot \cap PendingOf(commands, req[t].device_id) = {}
      ]_vars

\* C39 witness: two polls of one device were open together with two PENDING
\* commands; one has returned the first command and the other the second
C39_Witness ==
    \E t \in Slots : \E o \in Slots \ {t} :
        /\ pc[t] = "done" /\ req[t].kind = "poll"
        /\ pc[o] = "done" /\ req[o].kind = "poll"
        /\ req[t].device_id = req[o].device_id
        /\ {c.id : c \in resp[t].command} = {1}
        /\ {c.id : c \in resp[o].command} = {2}
        /\ commands[1].status = "PICKED_UP"
        /\ commands[2].status = "PICKED_UP"

\* the rollup row is consistent in itself
RollupConsistent(R) ==
    /\ \A i \in 1 .. WINDOW_DAYS :
          /\ R.daily_activity[i] <=> R.daily_sentiment[i] # None
          /\ ~R.daily_activity[i] => R.daily_durations[i] = 0
    /\ (R.avg_duration_minutes = 0) <=> (\A i \in 1 .. WINDOW_DAYS : R.daily_durations[i] = 0)
    /\ LET present == {i \in 1 .. WINDOW_DAYS : R.daily_sentiment[i] # None}
       IN  IF present = {} THEN R.current_tone = "neutral"
           ELSE LET last == CHOOSE i \in present : \A j \in present : j <= i
                    value == R.daily_sentiment[last]
                IN  R.current_tone =
                        IF value >= TonePositiveMin THEN "positive"
                        ELSE IF value >= ToneNeutralMin THEN "neutral"
                        ELSE "negative"

\* C40: every stored rollup is consistent in itself (activity is true
\* exactly on the days with a sentiment, an inactive day has duration 0, the
\* average is 0 exactly when all durations are 0, the tone classifies the
\* last present sentiment and is neutral without one), and a rollup is
\* stored only for a user with at least one stored session.
C40_StoredRollupIsConsistent ==
    \A u \in DOMAIN rollups :
        /\ RollupConsistent(rollups[u])
        /\ \E r \in BagToSet(sessions) : r.user_id = u


\* C40 witness: a stored rollup with an inactive day, an active day whose
\* duration rounds to 0, a positive average, and the tone negative after a
\* positive day
C40_Witness ==
    \E u \in DOMAIN rollups :
        LET R == rollups[u]
        IN  /\ \E i \in 1 .. WINDOW_DAYS : ~R.daily_activity[i]
            /\ \E i \in 1 .. WINDOW_DAYS : R.daily_activity[i] /\ R.daily_durations[i] = 0
            /\ R.avg_duration_minutes > 0
            /\ R.current_tone = "negative"
            /\ \E i \in 1 .. WINDOW_DAYS :
                  R.daily_sentiment[i] # None /\ R.daily_sentiment[i] >= TonePositiveMin

====
